---------------------------- MODULE Spec2Model ----------------------------
(***************************************************************************)
(* x-files.js: the path validator, the server-side handler                 *)
(* (XFilesHandler) and the client (XFilesClient), as state machines.       *)
(*                                                                         *)
(* Strings are sequences of one-character strings, so that the validator's *)
(* character-level operations (null-byte stripping, normalisation on '/',  *)
(* String.startsWith) are computed as the code computes them.              *)
(***************************************************************************)
EXTENDS Integers, Sequences, FiniteSets, TLC

VARIABLES
    \* --- handler configuration and process environment
    allowedPaths,   \* config.allowedPaths: a set of strings
    cwd,            \* process.cwd(), what path.resolve resolves against
    allowWrite,     \* config.allowWrite
    allowDelete,    \* config.allowDelete
    authorizeSet,   \* whether config.authorize is configured
    \* --- the validator applied to one input
    vpInput,        \* the inputPath handed to validatePath
    vpResult,       \* <<>> before the call, then <<what validatePath did>>
    \* --- the handler
    fs,             \* the file system: absolute path -> node
    peers,          \* the transports that may connect in this run
    envMsgs,        \* the request frames a peer may send in this run
    conn,           \* per transport: the handler's progress and the transport
    connections,    \* XFilesHandler.connections: the registered transports
    srvSent,        \* per transport: the envelopes handed to ws.send, in order
    tasks,          \* the handleMessage calls: sequence of task records
    fsCalls,        \* the fs calls made: [req, path]
    \* --- the client
    autoReconnect,      \* config.autoReconnect
    connected,          \* XFilesClient.connected
    connecting,         \* XFilesClient.connecting
    reconnectAttempts,  \* XFilesClient.reconnectAttempts
    reconnectTimer,     \* whether XFilesClient.reconnectTimer is set
    requestId,          \* XFilesClient.requestId
    pendingRequests,    \* the keys of XFilesClient.pendingRequests
    serverConfig,       \* XFilesClient.serverConfig: 0 for null, or the transport
                        \* whose capabilities push it holds
    ws,                 \* XFilesClient.ws: a transport, or 0 for null
    transports,         \* the WebSockets created, in order: state and history
    connectPromise,     \* per transport: the promise of the connect() that made it
    handles,            \* per requestId: the completion handle of the request
    clSent,             \* the frames the transports took from ws.send, in order
    clEvent,            \* the last call or event of the client, and its outcome
    retryLog            \* the retries scheduled since the last connect() call or
                        \* capabilities push: attempt counter and delay of each

cfgVars == <<allowedPaths, cwd, allowWrite, allowDelete, authorizeSet>>
pathVars == <<vpInput, vpResult>>
srvVars == <<fs, peers, envMsgs, conn, connections, srvSent, tasks, fsCalls>>
clVars == <<autoReconnect, connected, connecting, reconnectAttempts, reconnectTimer,
            requestId, pendingRequests, serverConfig, ws, transports,
            connectPromise, handles, clSent, clEvent, retryLog>>
vars == <<cfgVars, pathVars, srvVars, clVars>>

-----------------------------------------------------------------------------
(* Bounds *)

\* Longest input path the validator is tried on, in characters.
MaxPathLen == 6

\* Most request frames the handler receives in one run.
MaxRequests == 2

\* Most requests the client issues in one run.
MaxClientRequests == 2

\* Most WebSockets the client creates in one run.
MaxTransports == 3

-----------------------------------------------------------------------------
(* Characters and strings *)

Sep == "/"
Dot == "."
NulChar == "NUL"
Chars == {Sep, Dot, "a", NulChar}

DotDot == <<Dot, Dot>>

\* All strings over Chars of length at most n.
StringsUpTo(n) == UNION {[1..k -> Chars] : k \in 0..n}

\* String.prototype.startsWith
StartsWith(s, prefix) ==
    /\ Len(prefix) <= Len(s)
    /\ SubSeq(s, 1, Len(prefix)) = prefix

\* inputPath.replace(/\0/g, '')
StripNul(s) == SelectSeq(s, LAMBDA c : c # NulChar)

\* s.split('/'): the segments between separators, empty ones included.
RECURSIVE Split(_)
Split(s) ==
    IF s = <<>> THEN << <<>> >>
    ELSE LET r == Split(Tail(s)) IN
         IF Head(s) = Sep THEN << <<>> >> \o r
         ELSE << <<Head(s)>> \o Head(r) >> \o Tail(r)

\* segments.join('/')
RECURSIVE Join(_)
Join(segs) ==
    IF segs = <<>> THEN <<>>
    ELSE IF Len(segs) = 1 THEN Head(segs)
    ELSE Head(segs) \o <<Sep>> \o Join(Tail(segs))

\* Node's normalizeString over the segments of a path: empty and '.' segments
\* are dropped, '..' removes the segment before it, or is kept when the path is
\* relative and nothing is left to remove.
RECURSIVE NormalizeSegs(_, _, _)
NormalizeSegs(segs, acc, allowAboveRoot) ==
    IF segs = <<>> THEN acc
    ELSE LET g == Head(segs)
             next ==
                 IF g = <<>> \/ g = <<Dot>> THEN acc
                 ELSE IF g = DotDot
                      THEN IF acc # <<>> /\ acc[Len(acc)] # DotDot
                           THEN SubSeq(acc, 1, Len(acc) - 1)
                           ELSE IF allowAboveRoot THEN Append(acc, DotDot)
                           ELSE acc
                 ELSE Append(acc, g)
         IN NormalizeSegs(Tail(segs), next, allowAboveRoot)

PathIsAbsolute(p) == p # <<>> /\ p[1] = Sep

\* path.normalize (posix)
PathNormalize(p) ==
    IF p = <<>> THEN <<Dot>>
    ELSE LET isAbsolute == PathIsAbsolute(p)
             trailingSeparator == p[Len(p)] = Sep
             body == Join(NormalizeSegs(Split(p), <<>>, ~isAbsolute))
         IN IF body = <<>>
            THEN IF isAbsolute THEN <<Sep>>
                 ELSE IF trailingSeparator THEN <<Dot, Sep>> ELSE <<Dot>>
            ELSE (IF isAbsolute THEN <<Sep>> ELSE <<>>) \o body
                 \o (IF trailingSeparator THEN <<Sep>> ELSE <<>>)

\* path.resolve (posix) of one argument against the working directory: an
\* absolute, normalised path without a trailing separator.
PathResolve(p) ==
    LET full == IF PathIsAbsolute(p) THEN p
                ELSE IF p = <<>> THEN cwd
                ELSE cwd \o <<Sep>> \o p
        body == Join(NormalizeSegs(Split(full), <<>>, FALSE))
    IN <<Sep>> \o body

-----------------------------------------------------------------------------
(* XFilesHandler: path validation *)

\* XFilesHandler.isPathAllowed
isPathAllowed(targetPath) ==
    LET normalizedTarget == PathNormalize(PathResolve(targetPath)) IN
    \E allowedPath \in allowedPaths :
        LET normalizedAllowed == PathNormalize(PathResolve(allowedPath)) IN
        StartsWith(normalizedTarget, normalizedAllowed)

\* sanitizePath without the null-byte removal.
sanitizePath_KeepNul(inputPath) == PathNormalize(inputPath)

\* XFilesHandler.sanitizePath
sanitizePath(inputPath) == PathNormalize(StripNul(inputPath))

\* XFilesHandler.validatePath: the resolved path, or the thrown error.
validatePath(inputPath) ==
    LET sanitized == sanitizePath(inputPath)
        resolved == PathResolve(sanitized)
    IN IF ~isPathAllowed(resolved)
       THEN [ok |-> FALSE, path |-> <<>>, error |-> "Access denied"]
       ELSE [ok |-> TRUE, path |-> resolved, error |-> ""]

-----------------------------------------------------------------------------
(* The file system the handler works on: a tree of directories and files,    *)
(* keyed by absolute path.  fs/promises calls are operators from a tree to   *)
(* the outcome: the error thrown or the value returned, and the tree after.  *)

\* A string is a sequence of UTF-16 code units; the ones used: an ASCII
\* letter, a letter of two UTF-8 bytes, a high surrogate with no low surrogate
\* after it, and the replacement character.
U_x == "x"
U_e9 == "U+00E9"
U_d800 == "U+D800"
U_fffd == "U+FFFD"

\* The bytes a string is written as with encoding 'utf-8': an unpaired
\* surrogate is written as the bytes of U+FFFD.
RECURSIVE Utf8Encode(_)
Utf8Encode(str) ==
    IF str = <<>> THEN <<>>
    ELSE (CASE Head(str) = U_x -> <<"78">>
            [] Head(str) = U_e9 -> <<"c3", "a9">>
            [] OTHER -> <<"ef", "bf", "bd">>) \o Utf8Encode(Tail(str))

\* The string read from bytes with encoding 'utf-8': a byte that starts no
\* complete sequence reads as U+FFFD.
RECURSIVE Utf8Decode(_)
Utf8Decode(bytes) ==
    IF bytes = <<>> THEN <<>>
    ELSE IF Head(bytes) = "78" THEN <<U_x>> \o Utf8Decode(Tail(bytes))
    ELSE IF Len(bytes) >= 2 /\ SubSeq(bytes, 1, 2) = <<"c3", "a9">>
         THEN <<U_e9>> \o Utf8Decode(SubSeq(bytes, 3, Len(bytes)))
    ELSE IF Len(bytes) >= 3 /\ SubSeq(bytes, 1, 3) = <<"ef", "bf", "bd">>
         THEN <<U_fffd>> \o Utf8Decode(SubSeq(bytes, 4, Len(bytes)))
    ELSE <<U_fffd>> \o Utf8Decode(Tail(bytes))

\* byteLength counting code units instead of bytes.
byteLength_CodeUnits(content) == Len(content)

\* Buffer.byteLength(content, 'utf-8')
byteLength(content) == Len(Utf8Encode(content))

\* A node of the tree; the content of a file is its bytes.  A directory the
\* process may search but not read (mode --x) lets its entries be reached by
\* name and refuses readdir.
DirNode == [kind |-> "dir", content |-> <<>>, readable |-> TRUE]
FileNode(c) == [kind |-> "file", content |-> c, readable |-> TRUE]
LockedDirNode == [kind |-> "dir", content |-> <<>>, readable |-> FALSE]

\* The absolute path with these segments.
MkPath(segs) == <<Sep>> \o Join(segs)

\* The segments of an absolute, normalised path.
PathSegs(p) == SelectSeq(Split(p), LAMBDA g : g # <<>>)

\* path.dirname and path.basename of an absolute, normalised path
ParentOf(p) == LET g == PathSegs(p) IN MkPath(SubSeq(g, 1, Len(g) - 1))
BaseName(p) == LET g == PathSegs(p) IN IF g = <<>> THEN <<>> ELSE g[Len(g)]

\* path.join(dir, name)
PathJoin(dir, name) == PathNormalize(dir \o <<Sep>> \o name)

\* q lies strictly below p in the tree.
IsBelow(q, p) ==
    LET qs == PathSegs(q)
        ps == PathSegs(p)
    IN Len(ps) < Len(qs) /\ SubSeq(qs, 1, Len(ps)) = ps

FsExists(f, p) == p \in DOMAIN f
FsIsDir(f, p) == FsExists(f, p) /\ f[p].kind = "dir"
FsIsFile(f, p) == FsExists(f, p) /\ f[p].kind = "file"
ChildrenOf(f, p) == {q \in DOMAIN f : q # p /\ ParentOf(q) = p}
DescendantsOf(f, p) == {q \in DOMAIN f : IsBelow(q, p)}

\* The errno of a call on a path that does not exist.
ErrMissing(f, p) ==
    IF \E a \in DOMAIN f : IsBelow(p, a) /\ f[a].kind = "file"
    THEN "ENOTDIR" ELSE "ENOENT"

FsPut(f, p, node) == [q \in (DOMAIN f) \cup {p} |-> IF q = p THEN node ELSE f[q]]
FsRemove(f, gone) == [q \in (DOMAIN f) \ gone |-> f[q]]

\* The order names are listed in: character by character, a proper prefix
\* first.
CharRank(c) == CASE c = Dot -> 1 [] c = Sep -> 0 [] c = "a" -> 2 [] c = "d" -> 3
                 [] c = "e" -> 4 [] c = "f" -> 5 [] OTHER -> 6

RECURSIVE NameLess(_, _)
NameLess(a, b) ==
    IF a = <<>> THEN b # <<>>
    ELSE IF b = <<>> THEN FALSE
    ELSE IF Head(a) = Head(b) THEN NameLess(Tail(a), Tail(b))
    ELSE CharRank(Head(a)) < CharRank(Head(b))

\* A set of paths as a sequence, ordered by name.
RECURSIVE SortPaths(_)
SortPaths(S) ==
    IF S = {} THEN <<>>
    ELSE LET first == CHOOSE x \in S : \A y \in S \ {x} : NameLess(BaseName(x), BaseName(y))
         IN <<first>> \o SortPaths(S \ {first})

\* fs.readdir(p): the entries of a directory, in name order.
ReaddirOf(f, p) == SortPaths(ChildrenOf(f, p))

\* What an operation of the handler did: ok and data, or the error thrown; the
\* tree after; the paths its fs calls were issued on.
OpOk(data, f, touched) ==
    [ok |-> TRUE, error |-> "", data |-> data, fs |-> f, touched |-> touched]
OpFail(error, f, touched) ==
    [ok |-> FALSE, error |-> error, data |-> <<>>, fs |-> f, touched |-> touched]

\* The FileEntry built from fs.stat.
EntryOf(f, p) ==
    [name |-> BaseName(p), path |-> p, isDirectory |-> FsIsDir(f, p),
     isFile |-> FsIsFile(f, p), size |-> Len(f[p].content)]

\* Deepest tree the file system takes: a longer path is ENAMETOOLONG.
MaxTreeDepth == 4

\* fs.mkdir(p, {recursive: true})
FsMkdirP(f, p) ==
    IF Len(PathSegs(p)) > MaxTreeDepth THEN OpFail("ENAMETOOLONG", f, {p})
    ELSE IF FsIsFile(f, p) THEN OpFail("EEXIST", f, {p})
    ELSE IF \E a \in DOMAIN f : IsBelow(p, a) /\ f[a].kind = "file"
         THEN OpFail("ENOTDIR", f, {p})
    ELSE LET made == {MkPath(SubSeq(PathSegs(p), 1, k)) : k \in 0..Len(PathSegs(p))}
         IN OpOk(<<>>, [q \in (DOMAIN f) \cup made |->
                            IF q \in DOMAIN f THEN f[q] ELSE DirNode], {p})

\* The errno of creating or replacing the file p, "" when it can be written.
ErrWritable(f, p) ==
    IF FsIsDir(f, p) THEN "EISDIR"
    ELSE IF ~FsExists(f, ParentOf(p)) THEN ErrMissing(f, ParentOf(p))
    ELSE IF ~FsIsDir(f, ParentOf(p)) THEN "ENOTDIR"
    ELSE ""

\* fs.copyFile(src, dst)
FsCopyFile(f, src, dst) ==
    IF ~FsExists(f, src) THEN OpFail(ErrMissing(f, src), f, {src, dst})
    ELSE IF FsIsDir(f, src) THEN OpFail("EISDIR", f, {src, dst})
    ELSE IF ErrWritable(f, dst) # "" THEN OpFail(ErrWritable(f, dst), f, {src, dst})
    ELSE OpOk(<<>>, FsPut(f, dst, f[src]), {src, dst})

\* XFilesHandler.listDirectory, after validatePath
opListDirectory(f, resolvedPath) ==
    IF ~FsExists(f, resolvedPath)
    THEN OpFail(ErrMissing(f, resolvedPath), f, {resolvedPath})
    ELSE IF ~FsIsDir(f, resolvedPath) THEN OpFail("ENOTDIR", f, {resolvedPath})
    ELSE IF ~f[resolvedPath].readable THEN OpFail("EACCES", f, {resolvedPath})
    ELSE LET kids == ChildrenOf(f, resolvedPath)
             dirs == {k \in kids : FsIsDir(f, k)}
             sorted == SortPaths(dirs) \o SortPaths(kids \ dirs)
         IN OpOk([i \in 1..Len(sorted) |-> EntryOf(f, sorted[i])], f,
                 {resolvedPath} \cup kids)

\* XFilesHandler.getStats, after validatePath
opGetStats(f, resolvedPath) ==
    IF ~FsExists(f, resolvedPath)
    THEN OpFail(ErrMissing(f, resolvedPath), f, {resolvedPath})
    ELSE OpOk(EntryOf(f, resolvedPath), f, {resolvedPath})

\* XFilesHandler.readFile, after validatePath
opReadFile(f, resolvedPath, maxSize) ==
    IF ~FsExists(f, resolvedPath)
    THEN OpFail(ErrMissing(f, resolvedPath), f, {resolvedPath})
    ELSE IF Len(f[resolvedPath].content) > maxSize
         THEN OpFail("File too large", f, {resolvedPath})
    ELSE IF FsIsDir(f, resolvedPath) THEN OpFail("EISDIR", f, {resolvedPath})
    ELSE OpOk([content |-> Utf8Decode(f[resolvedPath].content),
               size |-> Len(f[resolvedPath].content)], f, {resolvedPath})

\* XFilesHandler.writeFile, after validatePath and the content size check
opWriteFile(f, resolvedPath, content) ==
    IF ErrWritable(f, resolvedPath) # ""
    THEN OpFail(ErrWritable(f, resolvedPath), f, {resolvedPath})
    ELSE LET g == FsPut(f, resolvedPath, FileNode(Utf8Encode(content)))
         IN OpOk([path |-> resolvedPath, size |-> Len(g[resolvedPath].content)],
                 g, {resolvedPath})

\* XFilesHandler.createDirectory, after validatePath
opCreateDirectory(f, resolvedPath) ==
    LET r == FsMkdirP(f, resolvedPath)
    IN IF r.ok THEN OpOk([path |-> resolvedPath], r.fs, r.touched) ELSE r

\* XFilesHandler.deleteItem, after validatePath.  fs.rm cannot empty a
\* directory it cannot read: EACCES (no run deletes at or above one, and what
\* fs.rm removed before the error is left out).
opDeleteItem(f, resolvedPath) ==
    IF ~FsExists(f, resolvedPath)
    THEN OpFail(ErrMissing(f, resolvedPath), f, {resolvedPath})
    ELSE IF \E q \in {resolvedPath} \cup DescendantsOf(f, resolvedPath) :
                FsIsDir(f, q) /\ ~f[q].readable /\ ChildrenOf(f, q) # {}
         THEN OpFail("EACCES", f, {resolvedPath})
    ELSE OpOk([deleted |-> resolvedPath],
              FsRemove(f, {resolvedPath} \cup DescendantsOf(f, resolvedPath)),
              {resolvedPath})

\* Where q, at or below old, lies once old is moved to new.
Rebase(q, old, new) ==
    MkPath(PathSegs(new) \o SubSeq(PathSegs(q), Len(PathSegs(old)) + 1, Len(PathSegs(q))))

\* The errno of fs.rename(old, new), "" when the move is made.
ErrRename(f, old, new) ==
    IF ~FsExists(f, old) THEN ErrMissing(f, old)
    ELSE IF ~FsExists(f, ParentOf(new)) THEN ErrMissing(f, ParentOf(new))
    ELSE IF ~FsIsDir(f, ParentOf(new)) THEN "ENOTDIR"
    ELSE IF IsBelow(new, old) THEN "EINVAL"
    ELSE IF old = new THEN ""
    ELSE IF FsIsDir(f, old) /\ FsIsFile(f, new) THEN "ENOTDIR"
    ELSE IF FsIsFile(f, old) /\ FsIsDir(f, new) THEN "EISDIR"
    ELSE IF FsIsDir(f, new) /\ ChildrenOf(f, new) # {} THEN "ENOTEMPTY"
    ELSE ""

\* XFilesHandler.renameItem, after both validatePath calls
opRenameItem(f, resolvedOld, resolvedNew) ==
    IF ErrRename(f, resolvedOld, resolvedNew) # ""
    THEN OpFail(ErrRename(f, resolvedOld, resolvedNew), f, {resolvedOld, resolvedNew})
    ELSE LET moved == {resolvedOld} \cup DescendantsOf(f, resolvedOld)
             kept == (DOMAIN f) \ (moved \cup {resolvedNew})
             landed == {Rebase(q, resolvedOld, resolvedNew) : q \in moved}
             g == [q \in kept \cup landed |->
                     IF q \in landed
                     THEN f[CHOOSE m \in moved : Rebase(m, resolvedOld, resolvedNew) = q]
                     ELSE f[q]]
         IN OpOk([oldPath |-> resolvedOld, newPath |-> resolvedNew],
                 IF resolvedOld = resolvedNew THEN f ELSE g,
                 {resolvedOld, resolvedNew})

\* XFilesHandler.copyDirectoryRecursive: the directory made, then each entry of
\* the source as readdir lists it after that, directories by recursion.
RECURSIVE copyDirectoryRecursive(_, _, _)
RECURSIVE CopyEntries(_, _, _, _)
copyDirectoryRecursive(f, source, destination) ==
    LET made == FsMkdirP(f, destination)
    IN IF ~made.ok THEN made
       ELSE IF ~FsIsDir(made.fs, source)
            THEN OpFail(ErrMissing(made.fs, source), made.fs, {source, destination})
       ELSE IF ~made.fs[source].readable
            THEN OpFail("EACCES", made.fs, {source, destination})
       ELSE LET r == CopyEntries(made.fs, ReaddirOf(made.fs, source), source, destination)
            IN [r EXCEPT !.touched = @ \cup {source, destination}]

CopyEntries(f, entries, source, destination) ==
    IF entries = <<>> THEN OpOk(<<>>, f, {})
    ELSE LET srcPath == Head(entries)
             destPath == PathJoin(destination, BaseName(srcPath))
             one == IF FsIsDir(f, srcPath)
                    THEN copyDirectoryRecursive(f, srcPath, destPath)
                    ELSE FsCopyFile(f, srcPath, destPath)
         IN IF ~one.ok THEN one
            ELSE LET rest == CopyEntries(one.fs, Tail(entries), source, destination)
                 IN [rest EXCEPT !.touched = @ \cup one.touched]

\* XFilesHandler.copyItem, after both validatePath calls
opCopyItem(f, resolvedSource, resolvedDest) ==
    IF ~FsExists(f, resolvedSource)
    THEN OpFail(ErrMissing(f, resolvedSource), f, {resolvedSource})
    ELSE LET r == IF FsIsDir(f, resolvedSource)
                  THEN copyDirectoryRecursive(f, resolvedSource, resolvedDest)
                  ELSE FsCopyFile(f, resolvedSource, resolvedDest)
         IN IF r.ok
            THEN OpOk([source |-> resolvedSource, destination |-> resolvedDest],
                      r.fs, r.touched \cup {resolvedSource})
            ELSE r

\* exists with every error of fs.stat taken as an answer.
opExists_SwallowsAll(f, resolvedPath) ==
    IF FsExists(f, resolvedPath)
    THEN OpOk([exists |-> TRUE, isDirectory |-> FsIsDir(f, resolvedPath),
               isFile |-> FsIsFile(f, resolvedPath)], f, {resolvedPath})
    ELSE OpOk([exists |-> FALSE], f, {resolvedPath})

\* XFilesHandler.exists, after validatePath: ENOENT is an answer, not an error.
opExists(f, resolvedPath) ==
    IF FsExists(f, resolvedPath)
    THEN OpOk([exists |-> TRUE, isDirectory |-> FsIsDir(f, resolvedPath),
               isFile |-> FsIsFile(f, resolvedPath)], f, {resolvedPath})
    ELSE IF ErrMissing(f, resolvedPath) = "ENOENT"
         THEN OpOk([exists |-> FALSE], f, {resolvedPath})
    ELSE OpFail(ErrMissing(f, resolvedPath), f, {resolvedPath})

\* pattern.test(name) for a pattern of literal characters: name contains it.
PatternTest(pattern, name) ==
    \E i \in 0..(Len(name) - Len(pattern)) :
        SubSeq(name, i + 1, i + Len(pattern)) = pattern

\* XFilesHandler.searchDirectoryRecursive: [results, touched] after the walk of
\* dirPath; a directory that cannot be read adds nothing.
RECURSIVE searchDirectoryRecursive(_, _, _, _, _, _)
RECURSIVE SearchEntries(_, _, _, _, _, _)
searchDirectoryRecursive(f, dirPath, pattern, acc, recursive, maxResults) ==
    IF Len(acc.results) >= maxResults THEN acc
    ELSE IF ~FsIsDir(f, dirPath) \/ ~f[dirPath].readable
         THEN [acc EXCEPT !.touched = @ \cup {dirPath}]
    ELSE SearchEntries(f, ReaddirOf(f, dirPath), pattern,
                       [acc EXCEPT !.touched = @ \cup {dirPath}],
                       recursive, maxResults)

\* The loop over the entries without its test of the cap.
SearchEntries_NoBreak(f, entries, pattern, acc, recursive, maxResults) ==
    IF entries = <<>> THEN acc
    ELSE LET entryPath == Head(entries)
             matched == IF PatternTest(pattern, BaseName(entryPath))
                        THEN [results |-> Append(acc.results, EntryOf(f, entryPath)),
                              touched |-> acc.touched \cup {entryPath}]
                        ELSE acc
             walked == IF recursive /\ FsIsDir(f, entryPath)
                       THEN searchDirectoryRecursive(f, entryPath, pattern, matched,
                                                     recursive, maxResults)
                       ELSE matched
         IN SearchEntries(f, Tail(entries), pattern, walked, recursive, maxResults)

SearchEntries(f, entries, pattern, acc, recursive, maxResults) ==
    IF entries = <<>> \/ Len(acc.results) >= maxResults THEN acc
    ELSE LET entryPath == Head(entries)
             matched == IF PatternTest(pattern, BaseName(entryPath))
                        THEN [results |-> Append(acc.results, EntryOf(f, entryPath)),
                              touched |-> acc.touched \cup {entryPath}]
                        ELSE acc
             walked == IF recursive /\ FsIsDir(f, entryPath)
                       THEN searchDirectoryRecursive(f, entryPath, pattern, matched,
                                                     recursive, maxResults)
                       ELSE matched
         IN SearchEntries(f, Tail(entries), pattern, walked, recursive, maxResults)

\* XFilesHandler.searchFiles, after validatePath
opSearchFiles(f, resolvedPath, pattern, recursive, maxResults) ==
    LET r == searchDirectoryRecursive(f, resolvedPath, pattern,
                                      [results |-> <<>>, touched |-> {}],
                                      recursive, maxResults)
    IN OpOk(r.results, f, r.touched \cup {resolvedPath})

-----------------------------------------------------------------------------
(* XFilesHandler: connections and the dispatch of requests *)

\* config.maxFileSize, in bytes
MaxFileSize == 3

\* searchFiles: the default of options.maxResults
DefaultMaxResults == 100

WriteKinds == {"write", "mkdir", "rename", "copy"}
TwoPathKinds == {"rename", "copy"}
OperationKinds ==
    {"list", "stat", "read", "write", "mkdir", "delete", "rename", "copy",
     "exists", "search"}

\* A decoded request frame.  path is params.path, or oldPath / source; path2 is
\* newPath / destination.
Request(type, path, path2, content) ==
    [type |-> type, requestId |-> 0, path |-> path, path2 |-> path2,
     content |-> content,
     pattern |-> <<"f">>, recursive |-> TRUE, maxResults |-> DefaultMaxResults]

\* A frame that is not JSON.
UndecodableFrame == Request("undecodable", <<>>, <<>>, <<>>)

\* The envelopes of the wire protocol, server to client.
ConnectedEnvelope ==
    [type |-> "connected", requestId |-> 0, success |-> TRUE, error |-> "",
     data |-> [allowWrite |-> allowWrite, allowDelete |-> allowDelete,
               maxFileSize |-> MaxFileSize]]
ErrorEnvelope(error) ==
    [type |-> "error", requestId |-> 0, success |-> FALSE, error |-> error,
     data |-> <<>>]
ResultEnvelope(id, success, data, error) ==
    [type |-> "result", requestId |-> id, success |-> success,
     error |-> error, data |-> data]

\* ws.send(JSON.stringify(envelope)) on transport c
WsSend(sent, c, envelope) == [sent EXCEPT ![c] = Append(@, envelope)]

\* No handler activity: what the state is before any connection.
ServerIdle ==
    /\ fs = <<>>
    /\ peers = {}
    /\ envMsgs = {}
    /\ conn = <<>>
    /\ connections = {}
    /\ srvSent = <<>>
    /\ tasks = <<>>
    /\ fsCalls = {}

\* checkPermission with the allowDelete test missing.
checkPermission_NoDeleteCheck(type) ==
    IF type \in WriteKinds /\ ~allowWrite THEN "Write operations are not allowed"
    ELSE ""

\* XFilesHandler.checkWritePermission / checkDeletePermission: the error
\* thrown for this kind of request, "" when none is.
checkPermission(type) ==
    IF type \in WriteKinds /\ ~allowWrite THEN "Write operations are not allowed"
    ELSE IF type = "delete" /\ ~allowDelete THEN "Delete operations are not allowed"
    ELSE ""

\* The part of a handler method that runs before its first fs call: the
\* validatePath calls in order, and writeFile's content size check.  The error
\* thrown ("" when none) and the resolved paths.
BeforeFs(m) ==
    LET v1 == validatePath(m.path)
        v2 == validatePath(m.path2)
    IN IF ~v1.ok THEN [error |-> v1.error, resolved |-> <<>>]
       ELSE IF m.type \in TwoPathKinds
            THEN IF ~v2.ok THEN [error |-> v2.error, resolved |-> <<>>]
                 ELSE [error |-> "", resolved |-> <<v1.path, v2.path>>]
       ELSE IF m.type = "write" /\ byteLength(m.content) > MaxFileSize
            THEN [error |-> "Content too large", resolved |-> <<>>]
       ELSE [error |-> "", resolved |-> <<v1.path>>]

\* The switch with the handler method's own checks made before the permission
\* check of the case.
Dispatch_ValidatesFirst(m) ==
    IF m.type \notin OperationKinds
    THEN [error |-> "Unknown operation", resolved |-> <<>>]
    ELSE IF BeforeFs(m).error # "" THEN BeforeFs(m)
    ELSE IF checkPermission(m.type) # ""
         THEN [error |-> checkPermission(m.type), resolved |-> <<>>]
    ELSE BeforeFs(m)

\* handleMessage's switch up to the first await on the file system: the error
\* thrown ("" when none) and the resolved paths.
Dispatch(m) ==
    IF m.type \notin OperationKinds
    THEN [error |-> "Unknown operation", resolved |-> <<>>]
    ELSE IF checkPermission(m.type) # ""
         THEN [error |-> checkPermission(m.type), resolved |-> <<>>]
    ELSE BeforeFs(m)

\* The rest of the handler method, on the file system as it is.
RunOp(f, m, resolved) ==
    CASE m.type = "list" -> opListDirectory(f, resolved[1])
      [] m.type = "stat" -> opGetStats(f, resolved[1])
      [] m.type = "read" -> opReadFile(f, resolved[1], MaxFileSize)
      [] m.type = "write" -> opWriteFile(f, resolved[1], m.content)
      [] m.type = "mkdir" -> opCreateDirectory(f, resolved[1])
      [] m.type = "delete" -> opDeleteItem(f, resolved[1])
      [] m.type = "rename" -> opRenameItem(f, resolved[1], resolved[2])
      [] m.type = "copy" -> opCopyItem(f, resolved[1], resolved[2])
      [] m.type = "exists" -> opExists(f, resolved[1])
      [] m.type = "search" ->
            opSearchFiles(f, resolved[1], m.pattern, m.recursive, m.maxResults)

\* A handleMessage call: the transport, the frame, where the call is
\* ("authorize": awaiting the hook; "fs": awaiting the file system; "done"),
\* what the hook answered and the validated paths.
Task(c, m, pc, auth, resolved) ==
    [conn |-> c, msg |-> m, pc |-> pc, auth |-> auth, resolved |-> resolved]

\* handleMessage from the switch on: either the error is answered at once, or
\* the call waits for the file system.
StartOp(ts, t, c, m, auth) ==
    LET d == Dispatch(m)
    IN IF d.error # ""
       THEN /\ tasks' = [ts EXCEPT ![t] = Task(c, m, "done", auth, <<>>)]
            /\ srvSent' = WsSend(srvSent, c,
                                 ResultEnvelope(m.requestId, FALSE, <<>>, d.error))
       ELSE /\ tasks' = [ts EXCEPT ![t] = Task(c, m, "fs", auth, d.resolved)]
            /\ UNCHANGED srvSent

\* wss.on('connection'): handleConnection calls the authenticate hook.
HandleConnection(c) ==
    /\ c \in peers
    /\ conn[c].pc = "none"
    /\ conn' = [conn EXCEPT ![c].pc = "authenticating"]
    /\ UNCHANGED <<cfgVars, pathVars, clVars, fs, peers, envMsgs, connections,
                   srvSent, tasks, fsCalls>>

\* The authenticate hook answers: true, false, or it throws.
AuthenticateReturn_RegistersFirst(c, answer) ==
    /\ c \in peers
    /\ conn[c].pc = "authenticating"
    /\ connections' = connections \cup {c}
    /\ IF answer = "true"
       THEN /\ srvSent' = WsSend(srvSent, c, ConnectedEnvelope)
            /\ conn' = [conn EXCEPT ![c].pc = "listening", ![c].auth = answer]
       ELSE /\ srvSent' = WsSend(srvSent, c,
                                 ErrorEnvelope(IF answer = "false"
                                               THEN "Authentication failed"
                                               ELSE "Authentication error"))
            /\ conn' = [conn EXCEPT ![c].pc = "rejected", ![c].open = FALSE,
                                    ![c].closeCode = 4001, ![c].auth = answer]
    /\ UNCHANGED <<cfgVars, pathVars, clVars, fs, peers, envMsgs, tasks, fsCalls>>
AuthenticateReturn_NoPush(c, answer) ==
    /\ c \in peers
    /\ conn[c].pc = "authenticating"
    /\ IF answer = "true"
       THEN /\ connections' = connections \cup {c}
            /\ srvSent' = srvSent
            /\ conn' = [conn EXCEPT ![c].pc = "listening", ![c].auth = answer]
       ELSE /\ srvSent' = WsSend(srvSent, c,
                                 ErrorEnvelope(IF answer = "false"
                                               THEN "Authentication failed"
                                               ELSE "Authentication error"))
            /\ conn' = [conn EXCEPT ![c].pc = "rejected", ![c].open = FALSE,
                                    ![c].closeCode = 4001, ![c].auth = answer]
            /\ UNCHANGED connections
    /\ UNCHANGED <<cfgVars, pathVars, clVars, fs, peers, envMsgs, tasks, fsCalls>>
AuthenticateReturn(c, answer) ==
    /\ c \in peers
    /\ conn[c].pc = "authenticating"
    /\ IF answer = "true"
       THEN /\ connections' = connections \cup {c}
            /\ srvSent' = WsSend(srvSent, c, ConnectedEnvelope)
            /\ conn' = [conn EXCEPT ![c].pc = "listening", ![c].auth = answer]
       ELSE /\ srvSent' = WsSend(srvSent, c,
                                 ErrorEnvelope(IF answer = "false"
                                               THEN "Authentication failed"
                                               ELSE "Authentication error"))
            /\ conn' = [conn EXCEPT ![c].pc = "rejected", ![c].open = FALSE,
                                    ![c].closeCode = 4001, ![c].auth = answer]
            /\ UNCHANGED connections
    /\ UNCHANGED <<cfgVars, pathVars, clVars, fs, peers, envMsgs, tasks, fsCalls>>

\* The transport closes ('close', or 'error'): the listeners, once attached,
\* drop the session.
TransportClose(c) ==
    /\ c \in peers
    /\ conn[c].open
    /\ conn[c].pc # "none"
    /\ conn' = [conn EXCEPT ![c].open = FALSE]
    /\ connections' = IF conn[c].pc = "listening" THEN connections \ {c}
                      ELSE connections
    /\ UNCHANGED <<cfgVars, pathVars, clVars, fs, peers, envMsgs, srvSent, tasks, fsCalls>>

\* getConnectionCount(): the size of the session map
getConnectionCount == Cardinality(connections)

\* ws.close(1000, 'Server closing') on the transport of each key of the session
\* map: a transport that is still open starts closing, one that is closed
\* already is left as it is.
CloseEach(cn, keys) ==
    [c \in DOMAIN cn |->
        IF c \in keys /\ cn[c].open
        THEN [cn[c] EXCEPT !.open = FALSE, !.closeCode = 1000]
        ELSE cn[c]]

\* closeAll with the loop leaving after the first key.
CloseAll_OnlyFirst ==
    /\ connections # {}
    /\ conn' = CloseEach(conn, {CHOOSE c \in connections : \A d \in connections : c <= d})
    /\ connections' = {}
    /\ UNCHANGED <<cfgVars, pathVars, clVars, fs, peers, envMsgs, srvSent, tasks, fsCalls>>

\* closeAll(): close every registered transport, then clear the map.
CloseAll ==
    /\ connections # {}
    /\ conn' = CloseEach(conn, connections)
    /\ connections' = {}
    /\ UNCHANGED <<cfgVars, pathVars, clVars, fs, peers, envMsgs, srvSent, tasks, fsCalls>>

\* ws.on('message') with a frame JSON.parse decodes: handleMessage starts, and
\* runs to the authorize hook if there is one, else to the file system.
ReceiveRequest(c, m) ==
    /\ c \in peers
    /\ conn[c].pc = "listening"
    /\ conn[c].open
    /\ Len(tasks) < MaxRequests
    /\ LET t == Len(tasks) + 1
           msg == [m EXCEPT !.requestId = t]
       IN IF authorizeSet
          THEN /\ tasks' = Append(tasks, Task(c, msg, "authorize", "pending", <<>>))
               /\ UNCHANGED srvSent
          ELSE StartOp(Append(tasks, Task(c, msg, "authorize", "none", <<>>)),
                       t, c, msg, "none")
    /\ UNCHANGED <<cfgVars, pathVars, clVars, fs, peers, envMsgs, conn, connections, fsCalls>>

\* A frame arrives while handleConnection awaits the authenticate hook: the
\* transport emits 'message' and no listener is attached yet, so the frame is
\* dropped ("dropped": no handleMessage call is ever made for it).
ReceiveWithoutListener(c, m) ==
    /\ c \in peers
    /\ conn[c].pc = "authenticating"
    /\ conn[c].open
    /\ Len(tasks) < MaxRequests
    /\ tasks' = Append(tasks, Task(c, [m EXCEPT !.requestId = Len(tasks) + 1],
                                   "dropped", "none", <<>>))
    /\ UNCHANGED <<cfgVars, pathVars, clVars, fs, peers, envMsgs, conn, connections,
                   srvSent, fsCalls>>

\* ws.on('message') with a frame JSON.parse rejects: the listener's catch sends
\* a connection-level error.
ReceiveUndecodable_AsResult(c) ==
    /\ c \in peers
    /\ conn[c].pc = "listening"
    /\ conn[c].open
    /\ Len(tasks) < MaxRequests
    /\ tasks' = Append(tasks, Task(c, UndecodableFrame, "done", "none", <<>>))
    /\ srvSent' = WsSend(srvSent, c, ResultEnvelope(0, FALSE, <<>>, "Unexpected token"))
    /\ UNCHANGED <<cfgVars, pathVars, clVars, fs, peers, envMsgs, conn,
                   connections, fsCalls>>
ReceiveUndecodable(c) ==
    /\ c \in peers
    /\ conn[c].pc = "listening"
    /\ conn[c].open
    /\ Len(tasks) < MaxRequests
    /\ tasks' = Append(tasks, Task(c, UndecodableFrame, "done", "none", <<>>))
    /\ srvSent' = WsSend(srvSent, c, ErrorEnvelope("Unexpected token"))
    /\ UNCHANGED <<cfgVars, pathVars, clVars, fs, peers, envMsgs, conn,
                   connections, fsCalls>>

\* AuthorizeReturn with the hook's answer ignored: a denial goes on to the
\* operation.
AuthorizeReturn_IgnoresDenial(t, answer) ==
    /\ t \in 1..Len(tasks)
    /\ tasks[t].pc = "authorize"
    /\ StartOp(tasks, t, tasks[t].conn, tasks[t].msg, answer)
    /\ UNCHANGED <<cfgVars, pathVars, clVars, fs, peers, envMsgs, conn, connections, fsCalls>>

\* The authorize hook answers: true, false, or it throws (the throw leaves
\* handleMessage and reaches the listener's catch).
AuthorizeReturn(t, answer) ==
    /\ t \in 1..Len(tasks)
    /\ tasks[t].pc = "authorize"
    /\ LET c == tasks[t].conn
           m == tasks[t].msg
       IN CASE answer = "true" -> StartOp(tasks, t, c, m, "true")
            [] answer = "false" ->
                 /\ tasks' = [tasks EXCEPT ![t] = Task(c, m, "done", "false", <<>>)]
                 /\ srvSent' = WsSend(srvSent, c,
                        ResultEnvelope(m.requestId, FALSE, <<>>, "Operation not authorized"))
            [] answer = "throw" ->
                 /\ tasks' = [tasks EXCEPT ![t] = Task(c, m, "done", "throw", <<>>)]
                 /\ srvSent' = WsSend(srvSent, c, ErrorEnvelope("authorize threw"))
    /\ UNCHANGED <<cfgVars, pathVars, clVars, fs, peers, envMsgs, conn, connections, fsCalls>>

\* handleMessage whose catch sends nothing for an error of the file system.
FsFinish_SilentOnFailure(t) ==
    /\ t \in 1..Len(tasks)
    /\ tasks[t].pc = "fs"
    /\ LET c == tasks[t].conn
           m == tasks[t].msg
           r == RunOp(fs, m, tasks[t].resolved)
       IN /\ fs' = r.fs
          /\ fsCalls' = fsCalls \cup {[req |-> t, path |-> p] : p \in r.touched}
          /\ tasks' = [tasks EXCEPT ![t].pc = "done"]
          /\ srvSent' = IF r.ok
                        THEN WsSend(srvSent, c,
                                    ResultEnvelope(m.requestId, r.ok, r.data, r.error))
                        ELSE srvSent
    /\ UNCHANGED <<cfgVars, pathVars, clVars, peers, envMsgs, conn, connections>>

\* The file system answers: the handler method finishes and handleMessage
\* sends the result, or the error it caught.
FsFinish_ClosesOnFailure(t) ==
    /\ t \in 1..Len(tasks)
    /\ tasks[t].pc = "fs"
    /\ LET c == tasks[t].conn
           m == tasks[t].msg
           r == RunOp(fs, m, tasks[t].resolved)
       IN /\ fs' = r.fs
          /\ fsCalls' = fsCalls \cup {[req |-> t, path |-> p] : p \in r.touched}
          /\ tasks' = [tasks EXCEPT ![t].pc = "done"]
          /\ srvSent' = WsSend(srvSent, c,
                               ResultEnvelope(m.requestId, r.ok, r.data, r.error))
          /\ conn' = IF r.ok THEN conn ELSE [conn EXCEPT ![c].open = FALSE]
    /\ UNCHANGED <<cfgVars, pathVars, clVars, peers, envMsgs, connections>>
FsFinish(t) ==
    /\ t \in 1..Len(tasks)
    /\ tasks[t].pc = "fs"
    /\ LET c == tasks[t].conn
           m == tasks[t].msg
           r == RunOp(fs, m, tasks[t].resolved)
       IN /\ fs' = r.fs
          /\ fsCalls' = fsCalls \cup {[req |-> t, path |-> p] : p \in r.touched}
          /\ tasks' = [tasks EXCEPT ![t].pc = "done"]
          /\ srvSent' = WsSend(srvSent, c,
                               ResultEnvelope(m.requestId, r.ok, r.data, r.error))
    /\ UNCHANGED <<cfgVars, pathVars, clVars, peers, envMsgs, conn, connections>>

\* ws.on('message') of a handler without authorize hook, the file system
\* answering before the next frame arrives: handleMessage from its first line
\* to the result it sends.
Serve(c, m) ==
    /\ c \in peers
    /\ conn[c].pc = "listening"
    /\ conn[c].open
    /\ ~authorizeSet
    /\ Len(tasks) < MaxRequests
    /\ \A t \in 1..Len(tasks) : tasks[t].pc = "done"
    /\ LET t == Len(tasks) + 1
           msg == [m EXCEPT !.requestId = t]
           d == Dispatch(msg)
           r == IF d.error # "" THEN OpFail(d.error, fs, {})
                ELSE RunOp(fs, msg, d.resolved)
       IN /\ fs' = r.fs
          /\ fsCalls' = fsCalls \cup {[req |-> t, path |-> q] : q \in r.touched}
          /\ tasks' = Append(tasks, Task(c, msg, "done", "none", d.resolved))
          /\ srvSent' = WsSend(srvSent, c,
                               ResultEnvelope(msg.requestId, r.ok, r.data, r.error))
    /\ UNCHANGED <<cfgVars, pathVars, clVars, peers, envMsgs, conn, connections>>

-----------------------------------------------------------------------------
(* XFilesClient *)

\* config.maxReconnectAttempts
MaxReconnectAttempts == 2

\* config.reconnectDelay and config.maxReconnectDelay, in units of time
ReconnectDelay == 1
MaxReconnectDelay == 2

\* Math.pow(2, k)
RECURSIVE Pow2(_)
Pow2(k) == IF k = 0 THEN 1 ELSE 2 * Pow2(k - 1)

\* scheduleReconnect: the delay of the timer set when the attempt counter is k
delay(k) ==
    IF ReconnectDelay * Pow2(k) < MaxReconnectDelay
    THEN ReconnectDelay * Pow2(k)
    ELSE MaxReconnectDelay

\* A WebSocket the client created: its readyState ("connecting", "open",
\* "closing", "closed") and whether the capabilities push was delivered on it.
Transport(state, pushed) == [state |-> state, pushed |-> pushed, opened |-> FALSE]

\* A completion handle: "pending", or settled as "resolved" / "rejected" with
\* the value or error message; `on' is the transport the request was issued on.
Handle(state, value, on) == [state |-> state, value |-> value, on |-> on]

\* A handle on which a later resolve / reject replaces the earlier one.
SettleHandle_LastWins(h, state, value) == Handle(state, value, h.on)

\* resolve(value) / reject(error) of a completion handle: the first settlement
\* stands.
SettleHandle(h, state, value) ==
    IF h.state = "pending" THEN Handle(state, value, h.on) ELSE h

\* ++this.requestId
NextRequestId(n) == n + 1

\* The client after construction.
InitClient(auto) ==
    /\ autoReconnect = auto
    /\ connected = FALSE
    /\ connecting = FALSE
    /\ reconnectAttempts = 0
    /\ reconnectTimer = FALSE
    /\ requestId = 0
    /\ pendingRequests = {}
    /\ serverConfig = 0
    /\ ws = 0
    /\ transports = <<>>
    /\ connectPromise = <<>>
    /\ handles = <<>>
    /\ clSent = <<>>
    /\ clEvent = [kind |-> "constructed", on |-> 0, id |-> 0, outcome |-> "",
                  onError |-> FALSE]
    /\ retryLog = <<>>

Event(kind, on, id, outcome) ==
    [kind |-> kind, on |-> on, id |-> id, outcome |-> outcome, onError |-> FALSE]

\* The same, the handler having called this.errorHandler (the onError
\* callback) or not.
ErrorEvent(kind, on, id, outcome, called) ==
    [Event(kind, on, id, outcome) EXCEPT !.onError = called]

\* resolve() / reject() of a promise: the first settlement stands.
Settle(promises, w, state) ==
    IF promises[w] = "pending" THEN [promises EXCEPT ![w] = state] ELSE promises

\* XFilesClient.connect, past its two early returns: a new WebSocket, with the
\* handlers of this call attached.
OpenTransport ==
    /\ connecting' = TRUE
    /\ transports' = Append(transports, Transport("connecting", FALSE))
    /\ connectPromise' = Append(connectPromise, "pending")
    /\ ws' = Len(transports) + 1

\* XFilesClient.connect
connect(caller) ==
    IF connected
    THEN /\ clEvent' = Event(caller, 0, 0, "resolved")
         /\ UNCHANGED <<connecting, transports, connectPromise, ws>>
    ELSE IF connecting
         THEN /\ clEvent' = Event(caller, 0, 0, "Connection already in progress")
              /\ UNCHANGED <<connecting, transports, connectPromise, ws>>
    ELSE /\ OpenTransport
         /\ clEvent' = Event(caller, Len(transports) + 1, 0, "opening")

\* A call of client.connect() by the application.
Connect ==
    /\ Len(transports) < MaxTransports
    /\ connect("connect")
    /\ retryLog' = <<>>
    /\ UNCHANGED <<autoReconnect, connected, reconnectAttempts, reconnectTimer,
                   requestId, pendingRequests, serverConfig, handles, clSent>>
    /\ UNCHANGED <<cfgVars, pathVars, srvVars>>

\* XFilesClient.scheduleReconnect: whether the timer is set after the call.
scheduleReconnect(timer) == IF timer THEN timer ELSE TRUE

\* ws.onopen of transport w
WsOpen(w) ==
    /\ w \in 1..Len(transports)
    /\ transports[w].state = "connecting"
    /\ transports' = [transports EXCEPT ![w].state = "open", ![w].opened = TRUE]
    /\ connected' = TRUE
    /\ reconnectAttempts' = 0
    /\ clEvent' = Event("open", w, 0, "")
    /\ UNCHANGED <<autoReconnect, connecting, reconnectTimer, requestId,
                   pendingRequests, serverConfig, ws, connectPromise, handles, clSent,
                   retryLog>>
    /\ UNCHANGED <<cfgVars, pathVars, srvVars>>

\* handleMessage, case 'connected', on transport w
OnConnectedEnvelope(w) ==
    /\ serverConfig' = w
    /\ connecting' = FALSE
    /\ connectPromise' = Settle(connectPromise, w, "resolved")
    /\ UNCHANGED <<pendingRequests, handles>>

\* handleMessage, case 'error', on transport w
OnErrorEnvelope(w) ==
    /\ IF ~connected
       THEN /\ connecting' = FALSE
            /\ connectPromise' = Settle(connectPromise, w, "rejected")
       ELSE UNCHANGED <<connecting, connectPromise>>
    /\ UNCHANGED <<serverConfig, pendingRequests, handles>>

\* handleMessage, case 'result'
OnResultEnvelope_KeepsEntry(m) ==
    /\ IF m.requestId \in pendingRequests
       THEN /\ pendingRequests' = pendingRequests
            /\ handles' = [handles EXCEPT ![m.requestId] =
                              IF m.success
                              THEN SettleHandle(@, "resolved", m.payload)
                              ELSE SettleHandle(@, "rejected", m.payload)]
       ELSE UNCHANGED <<pendingRequests, handles>>
    /\ UNCHANGED <<serverConfig, connecting, connectPromise>>
OnResultEnvelope(m) ==
    /\ IF m.requestId \in pendingRequests
       THEN /\ pendingRequests' = pendingRequests \ {m.requestId}
            /\ handles' = [handles EXCEPT ![m.requestId] =
                              IF m.success
                              THEN SettleHandle(@, "resolved", m.payload)
                              ELSE SettleHandle(@, "rejected", m.payload)]
       ELSE UNCHANGED <<pendingRequests, handles>>
    /\ UNCHANGED <<serverConfig, connecting, connectPromise>>

\* The requestIds of the frames sent on transport w.
SentOn(w) == {clSent[k].requestId : k \in {j \in 1..Len(clSent) : clSent[j].on = w}}

\* The envelopes a server may deliver on transport w: the capabilities push
\* first and once, a connection-level error at any time, and after the push
\* result envelopes that echo the requestId of a frame received on w, in any
\* order and possibly more than once.
Inbound(w) ==
    (IF transports[w].pushed
     THEN {[type |-> "result", requestId |-> i, success |-> ok,
            payload |-> IF ok THEN "data" ELSE "server error"] :
              i \in SentOn(w), ok \in BOOLEAN}
     ELSE {[type |-> "connected", requestId |-> 0, success |-> TRUE,
            payload |-> "config"]})
    \cup {[type |-> "error", requestId |-> 0, success |-> FALSE,
           payload |-> "error"]}

\* ws.onmessage of transport w
WsMessage(w, m) ==
    /\ w \in 1..Len(transports)
    /\ transports[w].state = "open"
    /\ m \in Inbound(w)
    /\ CASE m.type = "connected" -> OnConnectedEnvelope(w)
         [] m.type = "error" -> OnErrorEnvelope(w)
         [] m.type = "result" -> OnResultEnvelope(m)
    /\ transports' = [transports EXCEPT ![w].pushed = @ \/ m.type = "connected"]
    /\ clEvent' = ErrorEvent(m.type, w, m.requestId, m.payload,
                             m.type = "error" /\ connected)
    /\ retryLog' = IF m.type = "connected" THEN <<>> ELSE retryLog
    /\ UNCHANGED <<autoReconnect, connected, reconnectAttempts, reconnectTimer,
                   requestId, ws, clSent>>
    /\ UNCHANGED <<cfgVars, pathVars, srvVars>>

\* ws.onerror of transport w: the connection fails, its close follows.
WsError(w) ==
    /\ w \in 1..Len(transports)
    /\ transports[w].state \in {"connecting", "open"}
    /\ transports' = [transports EXCEPT ![w].state = "closing"]
    /\ IF ~connected
       THEN /\ connecting' = FALSE
            /\ connectPromise' = Settle(connectPromise, w, "rejected")
       ELSE UNCHANGED <<connecting, connectPromise>>
    /\ clEvent' = ErrorEvent("error event", w, 0, "WebSocket connection error", TRUE)
    /\ UNCHANGED <<autoReconnect, connected, reconnectAttempts, reconnectTimer,
                   requestId, pendingRequests, serverConfig, ws, handles, clSent, retryLog>>
    /\ UNCHANGED <<cfgVars, pathVars, srvVars>>

\* ws.onclose: reject(new Error('Connection closed')) for every pending entry
RejectPending_OnlyFirst(hs, pending) ==
    [i \in DOMAIN hs |->
        IF i \in pending /\ \A j \in pending : i <= j
        THEN SettleHandle(hs[i], "rejected", "Connection closed")
        ELSE hs[i]]
RejectPending(hs, pending) ==
    [i \in DOMAIN hs |->
        IF i \in pending
        THEN SettleHandle(hs[i], "rejected", "Connection closed")
        ELSE hs[i]]

\* ws.onclose of transport w
WsClose(w) ==
    /\ w \in 1..Len(transports)
    /\ transports[w].state \in {"open", "closing"}
    /\ transports' = [transports EXCEPT ![w].state = "closed"]
    /\ connected' = FALSE
    /\ connecting' = FALSE
    /\ handles' = RejectPending(handles, pendingRequests)
    /\ pendingRequests' = {}
    /\ reconnectTimer' = IF autoReconnect /\ reconnectAttempts < MaxReconnectAttempts
                         THEN scheduleReconnect(reconnectTimer)
                         ELSE reconnectTimer
    /\ retryLog' = IF /\ autoReconnect
                      /\ reconnectAttempts < MaxReconnectAttempts
                      /\ ~reconnectTimer
                   THEN Append(retryLog, [k |-> reconnectAttempts,
                                          wait |-> delay(reconnectAttempts)])
                   ELSE retryLog
    /\ clEvent' = Event("close", w, 0, IF connected THEN "was connected" ELSE "")
    /\ UNCHANGED <<autoReconnect, reconnectAttempts, requestId, serverConfig, ws,
                   connectPromise, clSent>>
    /\ UNCHANGED <<cfgVars, pathVars, srvVars>>

\* The reconnect timer fires.
TimerFire ==
    /\ reconnectTimer
    /\ Len(transports) < MaxTransports
    /\ reconnectTimer' = FALSE
    /\ reconnectAttempts' = reconnectAttempts + 1
    /\ connect("timer")
    /\ UNCHANGED <<autoReconnect, connected, requestId, pendingRequests,
                   serverConfig, handles, clSent, retryLog>>
    /\ UNCHANGED <<cfgVars, pathVars, srvVars>>

\* XFilesClient.request
ClientRequest ==
    /\ requestId < MaxClientRequests
    /\ IF ~connected \/ ws = 0
       THEN /\ clEvent' = Event("request", ws, 0, "Not connected")
            /\ UNCHANGED <<requestId, pendingRequests, handles, clSent>>
       ELSE LET id == NextRequestId(requestId)
                state == transports[ws].state
            IN /\ requestId' = id
               /\ pendingRequests' = pendingRequests \cup {id}
               /\ handles' = (id :> (IF state = "connecting"
                                     THEN Handle("rejected", "InvalidStateError", ws)
                                     ELSE Handle("pending", "", ws))) @@ handles
               /\ clSent' = IF state = "open"
                            THEN Append(clSent, [on |-> ws, requestId |-> id])
                            ELSE clSent
               /\ clEvent' = Event("request", ws, id,
                                   IF state = "open" THEN "sent" ELSE "not sent")
    /\ UNCHANGED <<autoReconnect, connected, connecting, reconnectAttempts,
                   reconnectTimer, serverConfig, ws, transports, connectPromise, retryLog>>
    /\ UNCHANGED <<cfgVars, pathVars, srvVars>>

\* disconnect() that leaves config.autoReconnect as it is.
Disconnect_KeepsAutoReconnect ==
    /\ autoReconnect' = autoReconnect
    /\ reconnectTimer' = FALSE
    /\ transports' = IF ws # 0 /\ transports[ws].state \in {"connecting", "open"}
                     THEN [transports EXCEPT ![ws].state = "closing"]
                     ELSE transports
    /\ ws' = 0
    /\ connected' = FALSE
    /\ clEvent' = Event("disconnect", ws, 0, "")
    /\ UNCHANGED <<connecting, reconnectAttempts, requestId, pendingRequests,
                   serverConfig, connectPromise, handles, clSent, retryLog>>
    /\ UNCHANGED <<cfgVars, pathVars, srvVars>>

\* XFilesClient.disconnect
Disconnect_KeepsTimer ==
    /\ autoReconnect' = FALSE
    /\ reconnectTimer' = reconnectTimer
    /\ transports' = IF ws # 0 /\ transports[ws].state \in {"connecting", "open"}
                     THEN [transports EXCEPT ![ws].state = "closing"]
                     ELSE transports
    /\ ws' = 0
    /\ connected' = FALSE
    /\ clEvent' = Event("disconnect", ws, 0, "")
    /\ UNCHANGED <<connecting, reconnectAttempts, requestId, pendingRequests,
                   serverConfig, connectPromise, handles, clSent, retryLog>>
    /\ UNCHANGED <<cfgVars, pathVars, srvVars>>
Disconnect ==
    /\ autoReconnect' = FALSE
    /\ reconnectTimer' = FALSE
    /\ transports' = IF ws # 0 /\ transports[ws].state \in {"connecting", "open"}
                     THEN [transports EXCEPT ![ws].state = "closing"]
                     ELSE transports
    /\ ws' = 0
    /\ connected' = FALSE
    /\ clEvent' = Event("disconnect", ws, 0, "")
    /\ UNCHANGED <<connecting, reconnectAttempts, requestId, pendingRequests,
                   serverConfig, connectPromise, handles, clSent, retryLog>>
    /\ UNCHANGED <<cfgVars, pathVars, srvVars>>

InitClientSpec ==
    /\ allowedPaths = {}
    /\ cwd = <<Sep>>
    /\ allowWrite = FALSE
    /\ allowDelete = FALSE
    /\ authorizeSet = FALSE
    /\ vpInput = <<>>
    /\ vpResult = <<>>
    /\ ServerIdle
    /\ \E auto \in BOOLEAN : InitClient(auto)

NextClient ==
    \/ Connect
    \/ \E w \in 1..Len(transports) : WsOpen(w)
    \/ \E w \in 1..Len(transports) : \E m \in Inbound(w) : WsMessage(w, m)
    \/ \E w \in 1..Len(transports) : WsError(w)
    \/ \E w \in 1..Len(transports) : WsClose(w)
    \/ TimerFire
    \/ ClientRequest
    \/ Disconnect

SpecClient == InitClientSpec /\ [][NextClient]_vars

-----------------------------------------------------------------------------
(* The validator on its own: every input up to MaxPathLen under a few        *)
(* allow-lists.                                                             *)

Str_a == <<Sep, "a">>
Str_aa == <<Sep, "a", Sep, "a">>

\* Allow-lists as a caller may configure them: one root, a nested root, a root
\* written with a trailing separator, a relative root, two roots.
AllowListChoices ==
    { {Str_a},
      {Str_aa},
      {<<Sep, "a", Sep>>},
      {<<"a">>},
      {Str_aa, <<Sep, Dot, "a">>} }

CwdChoices == { Str_a, <<Sep, "a", "a">>, <<Sep>> }

InitPath ==
    /\ allowedPaths \in AllowListChoices
    /\ cwd \in CwdChoices
    /\ allowWrite = FALSE
    /\ allowDelete = FALSE
    /\ authorizeSet = FALSE
    /\ vpInput \in StringsUpTo(MaxPathLen)
    /\ vpResult = <<>>
    /\ ServerIdle
    /\ InitClient(FALSE)

\* One call of validatePath on the input.
Validate ==
    /\ vpResult = <<>>
    /\ vpResult' = <<validatePath(vpInput)>>
    /\ UNCHANGED <<cfgVars, vpInput, srvVars, clVars>>

NextPath == Validate

SpecPath == InitPath /\ [][NextPath]_vars

-----------------------------------------------------------------------------
(* The handler serving one transport: allow-list ['/d'], every combination   *)
(* of allowWrite, allowDelete and an authorize hook.                        *)

P_root == <<Sep, "d">>
P_file == <<Sep, "d", Sep, "f">>
P_new == <<Sep, "d", Sep, "e">>
P_sibling == <<Sep, "d", "d">>
P_outside == <<Sep, "e">>

\* Contents of one byte, and of four: one more than maxFileSize.
Body_x == <<U_x>>
Body_ee == <<U_e9, U_e9>>

\* The tree the handler starts on: the root /d with one file, a directory
\* /dd beside it, a file /e outside.
InitFs ==
    [q \in {<<Sep>>, P_root, P_file, P_sibling, P_outside} |->
        IF q \in {P_file, P_outside} THEN FileNode(Utf8Encode(Body_x)) ELSE DirNode]

Req1(kind, q) == Request(kind, q, <<>>, <<>>)
Req2(kind, q, q2) == Request(kind, q, q2, <<>>)
ReqWrite(q, content) == Request("write", q, <<>>, content)

\* The request frames a peer sends in one run: one family of operation kinds,
\* on paths inside the root, beside it and outside it.
MsgFamilies ==
    { {Req1("list", P_root), Req1("list", P_sibling), Req1("list", P_outside),
       Req1("mkdir", P_new)},
      {Req1("stat", P_file), Req1("stat", P_outside), Req1("chmod", P_file),
       Req1("delete", P_file)},
      {Req1("read", P_file), Req1("read", P_new), Req1("read", P_outside),
       ReqWrite(P_new, Body_x)},
      {Req1("exists", P_file), Req1("exists", P_new), Req1("exists", P_outside),
       Req1("delete", P_file)},
      {Req1("search", P_root), Req1("search", P_outside), Req1("search", P_sibling),
       Req2("copy", P_file, P_new)},
      {ReqWrite(P_file, Body_ee), ReqWrite(P_new, Body_x), ReqWrite(P_outside, Body_x),
       Req1("read", P_new)},
      {Req1("mkdir", P_new), Req1("mkdir", P_outside), Req1("delete", P_root),
       Req1("delete", P_outside)},
      {Req2("rename", P_file, P_new), Req2("rename", P_file, P_outside),
       Req2("rename", P_outside, P_new), Req2("rename", P_sibling, P_new)},
      {Req2("copy", P_file, P_new), Req2("copy", P_root, P_new),
       Req2("copy", P_file, P_outside), Req2("copy", P_outside, P_new)} }

\* The handler configurations tried: <<allowWrite, allowDelete, authorize set>>.
HandlerConfigs ==
    { <<FALSE, FALSE, FALSE>>, <<TRUE, FALSE, FALSE>>, <<TRUE, TRUE, FALSE>>,
      <<FALSE, FALSE, TRUE>>, <<TRUE, TRUE, TRUE>> }

InitHandler(ps, msgs) ==
    /\ fs = InitFs
    /\ peers = ps
    /\ envMsgs = msgs
    /\ conn = [c \in ps |-> [pc |-> "none", open |-> TRUE, closeCode |-> 0,
                              auth |-> "pending"]]
    /\ connections = {}
    /\ srvSent = [c \in ps |-> <<>>]
    /\ tasks = <<>>
    /\ fsCalls = {}

InitServer ==
    /\ allowedPaths = {P_root}
    /\ cwd = <<Sep>>
    /\ \E cfg \in HandlerConfigs :
          /\ allowWrite = cfg[1]
          /\ allowDelete = cfg[2]
          /\ authorizeSet = cfg[3]
    /\ vpInput = <<>>
    /\ vpResult = <<>>
    /\ \E msgs \in MsgFamilies : InitHandler({1}, msgs)
    /\ InitClient(FALSE)

HookAnswers == {"true", "false", "throw"}

NextServer ==
    \/ \E c \in peers : HandleConnection(c)
    \/ \E c \in peers, a \in HookAnswers : AuthenticateReturn(c, a)
    \/ \E c \in peers, m \in envMsgs : ReceiveRequest(c, m)
    \/ \E c \in peers : ReceiveUndecodable(c)
    \/ \E t \in 1..Len(tasks), a \in HookAnswers : AuthorizeReturn(t, a)
    \/ \E t \in 1..Len(tasks) : FsFinish(t)

SpecServer == InitServer /\ [][NextServer]_vars

-----------------------------------------------------------------------------
(* The sessions of the handler: two transports that connect, authenticate,   *)
(* send a request, close from the peer's side, and the bulk close.           *)

SessionMsgs == {Req1("exists", P_file), Req1("stat", P_new)}

InitSession ==
    /\ allowedPaths = {P_root}
    /\ cwd = <<Sep>>
    /\ allowWrite = FALSE
    /\ allowDelete = FALSE
    /\ authorizeSet = FALSE
    /\ vpInput = <<>>
    /\ vpResult = <<>>
    /\ InitHandler({1, 2}, SessionMsgs)
    /\ InitClient(FALSE)

NextSession ==
    \/ \E c \in peers : HandleConnection(c)
    \/ \E c \in peers, a \in HookAnswers : AuthenticateReturn(c, a)
    \/ \E c \in peers : TransportClose(c)
    \/ \E c \in peers, m \in envMsgs : ReceiveRequest(c, m)
    \/ \E c \in peers, m \in envMsgs : ReceiveWithoutListener(c, m)
    \/ \E t \in 1..Len(tasks) : FsFinish(t)
    \/ CloseAll

SpecSession == InitSession /\ [][NextSession]_vars

-----------------------------------------------------------------------------
(* Files written and read back: one transport whose peer waits for each      *)
(* result, writes of every short content, allowWrite set.                    *)

\* Longest content written, in code units.
MaxContentLen == 2

Units == {U_x, U_e9, U_d800}
Contents == UNION {[1..k -> Units] : k \in 0..MaxContentLen}

\* n bytes of a file that was on disk before the handler started.
DiskBytes(n) == [i \in 1..n |-> "78"]

\* The frames of a run: writes of every content to the file that exists, writes
\* of the contents at the size limit and one byte over it to a new path, reads
\* of both.
FileMsgs ==
    {ReqWrite(P_file, content) : content \in Contents}
        \cup {ReqWrite(P_new, content) :
                  content \in {k \in Contents :
                                  byteLength(k) \in {MaxFileSize, MaxFileSize + 1}}}
        \cup {Req1("read", P_file), Req1("read", P_new)}

InitFile ==
    /\ allowedPaths = {P_root}
    /\ cwd = <<Sep>>
    /\ allowWrite = TRUE
    /\ allowDelete = FALSE
    /\ authorizeSet = FALSE
    /\ vpInput = <<>>
    /\ vpResult = <<>>
    /\ peers = {1}
    /\ envMsgs = FileMsgs
    /\ conn = [c \in {1} |-> [pc |-> "none", open |-> TRUE, closeCode |-> 0,
                               auth |-> "pending"]]
    /\ connections = {}
    /\ srvSent = [c \in {1} |-> <<>>]
    /\ tasks = <<>>
    /\ fsCalls = {}
    /\ \E n \in {1, MaxFileSize, MaxFileSize + 1} :
          fs = [InitFs EXCEPT ![P_file] = FileNode(DiskBytes(n))]
    /\ InitClient(FALSE)

NextFile ==
    \/ \E c \in peers : HandleConnection(c)
    \/ \E c \in peers : AuthenticateReturn(c, "true")
    \/ \E c \in peers, m \in envMsgs : Serve(c, m)

SpecFile == InitFile /\ [][NextFile]_vars

-----------------------------------------------------------------------------
(* Looking things up: exists, stat, list and search on a tree with a         *)
(* directory of two files, a directory that cannot be read, and a file.      *)

\* Largest cap a search request names, short of the default.
MaxHits == 2

P_a == <<Sep, "d", Sep, "a">>
P_af == <<Sep, "d", Sep, "a", Sep, "f">>
P_aff == <<Sep, "d", Sep, "a", Sep, "f", "f">>
P_locked == <<Sep, "d", Sep, "e", "f">>
P_hidden == <<Sep, "d", Sep, "e", "f", Sep, "f">>
P_under == <<Sep, "d", Sep, "f", Sep, "a">>

FindFs ==
    [q \in (DOMAIN InitFs) \cup {P_a, P_af, P_aff, P_locked, P_hidden} |->
        IF q \in DOMAIN InitFs THEN InitFs[q]
        ELSE IF q = P_a THEN DirNode
        ELSE IF q = P_locked THEN LockedDirNode
        ELSE FileNode(Utf8Encode(Body_x))]

ReqSearch(q, recursive, maxResults) ==
    [Request("search", q, <<>>, <<>>) EXCEPT !.recursive = recursive,
                                              !.maxResults = maxResults]

FindMsgs ==
    {Req1(kind, q) : kind \in {"exists", "stat"},
                     q \in {P_file, P_new, P_outside, P_under}}
        \cup {ReqSearch(P_root, r, n) : r \in BOOLEAN,
                                        n \in (0..MaxHits) \cup {DefaultMaxResults}}
        \cup {ReqSearch(q, TRUE, 1) : q \in {P_a, P_locked, P_file, P_outside}}
        \cup {Req1("list", P_locked)}

InitFind ==
    /\ allowedPaths = {P_root}
    /\ cwd = <<Sep>>
    /\ allowWrite = FALSE
    /\ allowDelete = FALSE
    /\ authorizeSet = FALSE
    /\ vpInput = <<>>
    /\ vpResult = <<>>
    /\ peers = {1}
    /\ envMsgs = FindMsgs
    /\ conn = [c \in {1} |-> [pc |-> "none", open |-> TRUE, closeCode |-> 0,
                               auth |-> "pending"]]
    /\ connections = {}
    /\ srvSent = [c \in {1} |-> <<>>]
    /\ tasks = <<>>
    /\ fsCalls = {}
    /\ fs = FindFs
    /\ InitClient(FALSE)

NextFind ==
    \/ \E c \in peers : HandleConnection(c)
    \/ \E c \in peers : AuthenticateReturn(c, "true")
    \/ \E c \in peers, m \in envMsgs : Serve(c, m)

SpecFind == InitFind /\ [][NextFind]_vars

-----------------------------------------------------------------------------
(* What the allow-list means: containment by path segments.                  *)

\* The segments of an absolute path.
SegmentsOf(p) == SelectSeq(Split(p), LAMBDA g : g # <<>>)

\* The canonical absolute form of an input: null bytes removed, then resolved.
Canonical(p) == PathResolve(StripNul(p))

\* p is root, or root followed by a separator and further segments.
IsUnder(p, root) ==
    LET ps == SegmentsOf(p)
        rs == SegmentsOf(root)
    IN Len(rs) <= Len(ps) /\ SubSeq(ps, 1, Len(rs)) = rs

UnderSomeRoot(p) == \E root \in allowedPaths : IsUnder(p, PathResolve(root))

\* C1: every input whose canonical absolute form is neither an allow-listed
\* root nor a descendant of one is refused with 'Access denied'.
C1_OutsideIsDenied ==
    (vpResult # <<>> /\ ~UnderSomeRoot(Canonical(vpInput)))
        => (~vpResult[1].ok /\ vpResult[1].error = "Access denied")

\* C3: every input whose canonical absolute form is an allow-listed root or a
\* descendant of one is accepted, and what is returned is that canonical form:
\* absolute, free of null bytes and of empty, '.' and '..' segments, and under
\* the same root.
C3_InsideIsAccepted ==
    \A root \in allowedPaths :
        (vpResult # <<>> /\ IsUnder(Canonical(vpInput), PathResolve(root)))
            => /\ vpResult[1].ok
               /\ vpResult[1].path = Canonical(vpInput)
               /\ PathIsAbsolute(vpResult[1].path)
               /\ \A i \in 1..Len(vpResult[1].path) : vpResult[1].path[i] # NulChar
               /\ \A g \in {Split(Tail(vpResult[1].path))[i] :
                                 i \in 1..Len(Split(Tail(vpResult[1].path)))} :
                      /\ g # <<Dot>>
                      /\ g # DotDot
                      /\ (g = <<>> => vpResult[1].path = <<Sep>>)
               /\ IsUnder(vpResult[1].path, PathResolve(root))

\* C3 witness: an accepted input that holds a null byte and, once the byte is
\* removed, a '..' segment.
C3_Witness ==
    /\ vpResult # <<>>
    /\ vpResult[1].ok
    /\ \E i \in 1..Len(vpInput) : vpInput[i] = NulChar
    /\ \E i \in 1..Len(Split(StripNul(vpInput))) : Split(StripNul(vpInput))[i] = DotDot
    /\ \E root \in allowedPaths : IsUnder(Canonical(vpInput), PathResolve(root))

-----------------------------------------------------------------------------
(* Claims about the dispatch of requests (SpecServer) *)

\* The envelopes sent in answer to task t: the result envelopes on its
\* transport that echo its requestId.
ResultsOf(t) ==
    LET out == srvSent[tasks[t].conn]
    IN {i \in 1..Len(out) :
            out[i].type = "result" /\ out[i].requestId = tasks[t].msg.requestId}

ResultOf(t) == srvSent[tasks[t].conn][CHOOSE i \in ResultsOf(t) : TRUE]

RequestTasks == {t \in 1..Len(tasks) : tasks[t].msg.type # "undecodable"}
CallsOf(t) == {e \in fsCalls : e.req = t}

\* The path-bearing fields of a request.
PathFields(m) == IF m.type \in TwoPathKinds THEN {m.path, m.path2} ELSE {m.path}

\* C2: every path-bearing field of a request is validated before the
\* operation's first fs call, so no fs call is ever issued on a path outside
\* the allow-list, and rename / copy make no fs call when an endpoint fails
\* validation.
C2_NoFsCallOutsideAllowList ==
    /\ \A e \in fsCalls : \A q \in PathFields(tasks[e.req].msg) : validatePath(q).ok
    /\ \A t \in RequestTasks :
          (\E q \in PathFields(tasks[t].msg) : ~validatePath(q).ok) => CallsOf(t) = {}
    /\ \A e \in fsCalls : UnderSomeRoot(e.path)

\* The part of C2 the handler keeps: an fs call is made only by a request all
\* of whose path fields passed validatePath, and only on paths at or below a
\* path validatePath returned.
ValidatedBeforeFs ==
    /\ \A e \in fsCalls :
          /\ \A q \in PathFields(tasks[e.req].msg) : validatePath(q).ok
          /\ \E q \in PathFields(tasks[e.req].msg) : IsUnder(e.path, validatePath(q).path)
    /\ \A t \in RequestTasks :
          (\E q \in PathFields(tasks[t].msg) : ~validatePath(q).ok) => CallsOf(t) = {}

\* A request of a mutating kind whose permission flag is not set.
LacksPermission(m) ==
    \/ m.type \in WriteKinds /\ ~allowWrite
    \/ m.type = "delete" /\ ~allowDelete

PermissionErrorOf(m) ==
    IF m.type = "delete" THEN "Delete operations are not allowed"
    ELSE "Write operations are not allowed"

\* C4 as stated: every request of a mutating kind whose permission flag is not
\* set is answered with the write-disabled / delete-disabled error and makes
\* no change to storage.
C4_PermissionErrorAlways ==
    \A t \in RequestTasks :
        (LacksPermission(tasks[t].msg) /\ tasks[t].pc = "done")
            => /\ CallsOf(t) = {}
               /\ ResultsOf(t) # {}
               /\ ~ResultOf(t).success
               /\ ResultOf(t).error = PermissionErrorOf(tasks[t].msg)

\* C4 as amended: such a request never succeeds and never reaches the file
\* system; it is answered with the write-disabled / delete-disabled error when
\* no authorize hook is configured or the hook admits it, and with 'Operation
\* not authorized' when the hook denies it.
C4_NoMutationWithoutPermission ==
    \A t \in RequestTasks :
        LacksPermission(tasks[t].msg)
            => /\ CallsOf(t) = {}
               /\ tasks[t].pc # "fs"
               /\ \A i \in ResultsOf(t) : ~srvSent[tasks[t].conn][i].success
               /\ (tasks[t].pc = "done" /\ tasks[t].auth \in {"none", "true"})
                     => /\ Cardinality(ResultsOf(t)) = 1
                        /\ ResultOf(t).error = PermissionErrorOf(tasks[t].msg)
               /\ (tasks[t].pc = "done" /\ tasks[t].auth = "false")
                     => /\ Cardinality(ResultsOf(t)) = 1
                        /\ ResultOf(t).error = "Operation not authorized"

\* C4 witness: a write to a path inside the root, admitted by the authorize
\* hook while allowWrite is off, answered with the write-disabled error, and a
\* delete answered with the delete-disabled error, the tree as it was.
C4_Witness ==
    /\ fs = InitFs
    /\ \E t \in RequestTasks :
          /\ tasks[t].pc = "done"
          /\ LacksPermission(tasks[t].msg)
          /\ validatePath(tasks[t].msg.path).ok
          /\ tasks[t].auth = "true"
          /\ ResultsOf(t) # {}
          /\ ResultOf(t).error = PermissionErrorOf(tasks[t].msg)

\* C5: a request the authorize hook answers false gets one failed result,
\* 'Operation not authorized', and none of its fs calls is ever made.
C5_DeniedIsNeverAttempted ==
    \A t \in RequestTasks :
        tasks[t].auth = "false"
            => /\ tasks[t].pc = "done"
               /\ CallsOf(t) = {}
               /\ Cardinality(ResultsOf(t)) = 1
               /\ ~ResultOf(t).success
               /\ ResultOf(t).error = "Operation not authorized"

\* C5 witness: the hook denies a request that nothing else would refuse, a
\* list of the root, while another request of the run was carried out.
C5_Witness ==
    \E t \in RequestTasks :
        /\ tasks[t].auth = "false"
        /\ Dispatch(tasks[t].msg).error = ""
        /\ ResultsOf(t) # {}
        /\ \E u \in RequestTasks : u # t /\ CallsOf(u) # {}

\* C6: every decoded request frame is answered by exactly one result envelope
\* echoing its requestId: one once the handling has ended, none before, never
\* two.
C6_ExactlyOneResult ==
    \A t \in RequestTasks :
        Cardinality(ResultsOf(t)) = IF tasks[t].pc = "done" THEN 1 ELSE 0

\* The connections whose authenticate hook answered false or threw.
Refused == {c \in peers : conn[c].auth \in {"false", "throw"}}

\* The connections whose authenticate hook answered true.
Admitted == {c \in peers : conn[c].auth = "true"}

\* C17: when the authenticate hook returns false or throws, the server sends
\* exactly one connection-level error envelope, closes the transport with
\* status 4001, registers no session, pushes no capabilities and dispatches no
\* request of that connection.
C17_AuthFailureRefuses ==
    \A c \in Refused :
        /\ Len(srvSent[c]) = 1
        /\ srvSent[c][1].type = "error"
        /\ srvSent[c][1].error =
              (IF conn[c].auth = "false" THEN "Authentication failed"
               ELSE "Authentication error")
        /\ ~conn[c].open
        /\ conn[c].closeCode = 4001
        /\ c \notin connections
        /\ \A t \in 1..Len(tasks) : tasks[t].conn # c
        /\ \A e \in fsCalls : tasks[e.req].conn # c

\* The hook threw and the connection was refused.
C17_Witness ==
    \E c \in Refused :
        /\ conn[c].auth = "throw"
        /\ conn[c].closeCode = 4001
        /\ Len(srvSent[c]) = 1

\* C18: on a connection whose authentication succeeded the first envelope the
\* server sends is the capabilities push, without requestId; it is sent once,
\* and before any result envelope of that connection.
C18_PushComesFirstAndOnce ==
    /\ \A c \in Admitted :
          /\ Len(srvSent[c]) >= 1
          /\ srvSent[c][1].type = "connected"
          /\ srvSent[c][1].requestId = 0
          /\ srvSent[c][1].data = [allowWrite |-> allowWrite,
                                   allowDelete |-> allowDelete,
                                   maxFileSize |-> MaxFileSize]
          /\ \A i \in 2..Len(srvSent[c]) : srvSent[c][i].type # "connected"
    /\ \A c \in peers : \A i \in 1..Len(srvSent[c]) :
          srvSent[c][i].type = "result"
              => i > 1 /\ srvSent[c][1].type = "connected"

\* The push was followed by two results.
C18_Witness ==
    \E c \in Admitted :
        /\ Len(srvSent[c]) = 3
        /\ srvSent[c][2].type = "result"
        /\ srvSent[c][3].type = "result"

\* The step is the receipt of a frame that cannot be decoded.
UndecodableStep ==
    /\ Len(tasks') = Len(tasks) + 1
    /\ tasks'[Len(tasks')].msg.type = "undecodable"

\* C19: a frame that cannot be decoded produces one connection-level error
\* envelope, not a result envelope, and leaves the connection open, registered
\* and listening, so that later requests on it are still answered.
C19_UndecodableGetsErrorEnvelope ==
    [][UndecodableStep =>
         LET c == tasks'[Len(tasks')].conn
         IN /\ Len(srvSent'[c]) = Len(srvSent[c]) + 1
            /\ srvSent'[c][Len(srvSent'[c])].type = "error"
            /\ srvSent'[c][Len(srvSent'[c])].requestId = 0
            /\ \A i \in 1..Len(srvSent[c]) : srvSent'[c][i] = srvSent[c][i]
            /\ conn'[c] = conn[c]
            /\ conn'[c].open
            /\ conn'[c].pc = "listening"
            /\ c \in connections'
            /\ \A t \in 1..Len(tasks) : tasks'[t] = tasks[t]]_vars

\* A request received after an undecodable frame was carried out and answered.
C19_Witness ==
    \E t \in 1..Len(tasks) : \E u \in RequestTasks :
        /\ t < u
        /\ tasks[t].msg.type = "undecodable"
        /\ tasks[u].pc = "done"
        /\ ResultsOf(u) # {}
        /\ ResultOf(u).success

\* C20: no request error closes a connection: after a failed operation, an
\* authorization denial, an unknown operation kind or an undecodable frame the
\* connection is still open, registered and listening.
C20_RequestErrorsKeepConnection ==
    \A c \in Admitted :
        /\ conn[c].open
        /\ conn[c].closeCode = 0
        /\ conn[c].pc = "listening"
        /\ c \in connections

\* An unknown operation kind and an undecodable frame were both answered, and
\* the connection is open.
C20_Witness ==
    \E c \in Admitted : \E t \in RequestTasks : \E u \in 1..Len(tasks) :
        /\ tasks[t].conn = c /\ tasks[u].conn = c
        /\ tasks[t].msg.type \notin OperationKinds
        /\ tasks[t].pc = "done"
        /\ ~ResultOf(t).success
        /\ tasks[u].msg.type = "undecodable"
        /\ conn[c].open

-----------------------------------------------------------------------------
(* Client claims *)

\* The client is Active: the current transport is open and the capabilities
\* push has been received on it.
Active ==
    /\ ws # 0
    /\ transports[ws].state = "open"
    /\ transports[ws].pushed

\* The ids whose completion handle is not settled.
Unsettled == {i \in DOMAIN handles : handles[i].state = "pending"}

\* The step is the handling of a result envelope.
ResultStep == clEvent'.kind = "result" /\ transports' = transports

\* C7: a result envelope whose requestId matches a pending entry removes exactly
\* that entry and settles its handle, resolved with the data on success and
\* rejected with the carried error otherwise, whatever the order of arrival;
\* a result envelope with no pending entry changes neither the pending table
\* nor any handle.
C7_ResultSettlesExactlyItsEntry ==
    [][ResultStep =>
         LET id == clEvent'.id
         IN IF id \in pendingRequests
            THEN /\ pendingRequests' = pendingRequests \ {id}
                 /\ handles'[id].state =
                        (IF clEvent'.outcome = "data" THEN "resolved" ELSE "rejected")
                 /\ handles'[id].value = clEvent'.outcome
                 /\ \A j \in DOMAIN handles \ {id} : handles'[j] = handles[j]
            ELSE /\ pendingRequests' = pendingRequests
                 /\ handles' = handles]_vars

\* Two requests are pending and the later one has been answered first.
C7_Witness ==
    /\ clEvent.kind = "result"
    /\ clEvent.id = 2
    /\ requestId = 2
    /\ pendingRequests = {1}
    /\ handles[2].state = "resolved"
    /\ handles[1].state = "pending"

\* C8: when a transport of the client closes, every request still pending at
\* that moment is rejected with 'Connection closed', the pending table is
\* empty afterwards, and no request that was pending before the close is
\* pending after it.
C8_CloseRejectsEveryPending ==
    [][clEvent'.kind = "close" /\ transports' # transports =>
         /\ pendingRequests' = {}
         /\ Unsettled' = {}
         /\ \A i \in pendingRequests \cap Unsettled :
               /\ handles'[i].state = "rejected"
               /\ handles'[i].value = "Connection closed"]_vars

\* A close has just rejected two pending requests.
C8_Witness ==
    /\ clEvent.kind = "close"
    /\ pendingRequests = {}
    /\ requestId = 2
    /\ \A i \in 1..2 : /\ handles[i].state = "rejected"
                       /\ handles[i].value = "Connection closed"

\* C9: a request issued while the client is not Active is rejected with
\* 'Not connected', no frame is sent and no pending entry is created.
C9_NotActiveIsRejected ==
    [][clEvent'.kind = "request" /\ ~Active =>
         /\ clEvent'.outcome = "Not connected"
         /\ clSent' = clSent
         /\ pendingRequests' = pendingRequests]_vars

\* The ids are issued as 1, 2, 3, ... and the frames sent carry strictly
\* increasing ids.
RequestIdsIncrease ==
    /\ DOMAIN handles = 1..requestId
    /\ \A i \in 1..Len(clSent) : \A j \in 1..Len(clSent) :
           i < j => clSent[i].requestId < clSent[j].requestId
    /\ \A i \in 1..Len(clSent) : clSent[i].requestId \in 1..requestId

\* C10: request ids are strictly increasing from 1 and never reused, and the
\* keys of the pending table are ids that were issued and are not yet settled.
C10_RequestIdsAreFresh ==
    /\ RequestIdsIncrease
    /\ pendingRequests \subseteq 1..requestId
    /\ \A i \in pendingRequests : handles[i].state = "pending"

\* C11: a connect() call resolves only after the capabilities push was received
\* on the current transport: whenever a connect() has resolved, serverConfig
\* holds the capabilities pushed on that connection.
C11_ResolvedOnlyAfterPush ==
    /\ \A w \in 1..Len(transports) :
          connectPromise[w] = "resolved" => transports[w].pushed
    /\ (clEvent.kind = "connect" /\ clEvent.outcome = "resolved")
          => /\ ws # 0
             /\ transports[ws].pushed
             /\ serverConfig = ws

\* The part of C11 that holds of the promise of the connect() call that made a
\* transport: it is resolved only by the capabilities push on that transport.
PromiseResolvedByPush ==
    \A w \in 1..Len(transports) :
        connectPromise[w] = "resolved" => transports[w].pushed

\* The step is a call of connect() by the application.
ConnectStep == clEvent'.kind = "connect" /\ clEvent' # clEvent

\* C12: connect() called while the client is Active resolves immediately, opens
\* no transport, and leaves the connection state, the pending table, the
\* request-id counter and the reconnect counter unchanged.
C12_ConnectWhileActiveIsNoOp ==
    [][ConnectStep /\ Active =>
         /\ clEvent'.outcome = "resolved"
         /\ transports' = transports
         /\ UNCHANGED <<ws, connected, connecting, pendingRequests, requestId,
                        reconnectAttempts>>]_vars

\* The part of C12 the code keeps: connect() called while the connected flag is
\* set resolves immediately and changes nothing.
ConnectWhileConnectedFlag ==
    [][ConnectStep /\ connected =>
         /\ clEvent'.outcome = "resolved"
         /\ transports' = transports
         /\ UNCHANGED <<ws, connected, connecting, pendingRequests, requestId,
                        reconnectAttempts>>]_vars

\* A connection attempt is in progress: the current transport was created and
\* has neither failed nor received the capabilities push.
InProgress ==
    /\ ws # 0
    /\ transports[ws].state \in {"connecting", "open"}
    /\ ~transports[ws].pushed

\* C13: connect() called while a connection attempt is in progress rejects with
\* 'Connection already in progress', creates no second transport and does not
\* disturb the attempt.
C13_ConnectWhileConnectingRejects ==
    [][ConnectStep /\ InProgress =>
         /\ clEvent'.outcome = "Connection already in progress"
         /\ transports' = transports
         /\ UNCHANGED <<ws, connecting, connectPromise>>]_vars

\* C14: with auto-reconnect on and maxReconnectAttempts = N, the client makes
\* at most N automatic attempts in a row: after N retries without a
\* capabilities push in between it schedules no further retry until connect()
\* is called.
C14_AtMostNRetries == Len(retryLog) <= MaxReconnectAttempts

\* The part of C14 the code keeps: a retry is scheduled only while the attempt
\* counter is below the ceiling, and the counter never exceeds it.
RetryOnlyBelowCeiling ==
    /\ reconnectAttempts <= MaxReconnectAttempts
    /\ \A i \in 1..Len(retryLog) : retryLog[i].k < MaxReconnectAttempts

\* Each retry is scheduled with the delay min(reconnectDelay * 2^k,
\* maxReconnectDelay), k the attempt counter at that moment.
DelayIsCappedPower ==
    \A i \in 1..Len(retryLog) :
        LET power == ReconnectDelay * 2^(retryLog[i].k)
        IN /\ retryLog[i].wait <= MaxReconnectDelay
           /\ retryLog[i].wait <= power
           /\ retryLog[i].wait \in {power, MaxReconnectDelay}

\* C15: the delay of the retry scheduled when the attempt counter is k is
\* min(reconnectDelay * 2^k, maxReconnectDelay); across consecutive failed
\* attempts the delays never decrease and never exceed maxReconnectDelay.
C15_DelaysGrowToTheCap ==
    /\ DelayIsCappedPower
    /\ \A i \in 1..Len(retryLog) : \A j \in 1..Len(retryLog) :
           i < j => retryLog[i].wait <= retryLog[j].wait

\* C16: disconnect() cancels the scheduled retry and disables auto-reconnect;
\* it closes the transport without settling or waiting for the pending
\* requests; afterwards no retry is ever scheduled, so the client opens no
\* transport on its own: every new transport comes from a connect() call.
C16_DisconnectStopsReconnect ==
    /\ [][clEvent'.kind = "disconnect" =>
            /\ ~reconnectTimer'
            /\ ~autoReconnect'
            /\ ws' = 0
            /\ ws # 0 => transports'[ws].state \in {"closing", "closed"}
            /\ Len(transports') = Len(transports)
            /\ UNCHANGED <<pendingRequests, handles>>]_vars
    /\ [][~autoReconnect =>
            /\ ~autoReconnect'
            /\ ~reconnectTimer'
            /\ Len(transports') > Len(transports) => clEvent'.kind = "connect"]_vars

\* disconnect() was called while a retry was scheduled: one transport was made
\* and lost, a retry was scheduled and never ran, and the timer is cleared.
C16_Witness ==
    /\ clEvent.kind = "disconnect"
    /\ Len(transports) = 1
    /\ transports[1].state = "closed"
    /\ Len(retryLog) = 1
    /\ reconnectAttempts = 0
    /\ ~reconnectTimer

-----------------------------------------------------------------------------
(* Sessions: bulk close and the session set                                  *)

\* A step in which the handler closes a transport with code 1000: only
\* closeAll does.
BulkCloseStep == \E c \in peers : conn[c].closeCode # 1000 /\ conn'[c].closeCode = 1000

\* C21: closeAll() closes every session registered at the time of the call and
\* leaves the session set empty, so getConnectionCount() is 0 right after it.
C21_CloseAllClosesAndClears ==
    [][BulkCloseStep =>
          /\ \A c \in connections : ~conn'[c].open
          /\ connections' = {}
          /\ getConnectionCount' = 0]_vars

\* Both transports were registered and open, and closeAll closed both.
C21_Witness ==
    /\ connections = {}
    /\ \A c \in peers : conn[c].closeCode = 1000 /\ ~conn[c].open

-----------------------------------------------------------------------------
(* Contents and sizes                                                        *)

\* Task t is a write that succeeded and task t + 1 a read of the same path.
WriteThenRead(t) ==
    /\ t + 1 <= Len(tasks)
    /\ tasks[t].msg.type = "write"
    /\ tasks[t + 1].msg.type = "read"
    /\ tasks[t + 1].msg.path = tasks[t].msg.path
    /\ tasks[t].pc = "done"
    /\ tasks[t + 1].pc = "done"

\* C22: for every content whose encoded size is at most maxFileSize, a write
\* followed by a read of the same path returns exactly the content written and
\* a size equal to its byte length.
C22_RoundTrip ==
    \A t \in 1..Len(tasks) :
        (WriteThenRead(t) /\ byteLength(tasks[t].msg.content) <= MaxFileSize)
            => /\ ResultOf(t).success
               /\ ResultOf(t + 1).success
               /\ ResultOf(t + 1).data.content = tasks[t].msg.content
               /\ ResultOf(t + 1).data.size = byteLength(tasks[t].msg.content)

\* The part of C22 the handler keeps: what is read back is the content written
\* with every unpaired surrogate replaced by U+FFFD, and the size is the byte
\* length of the content written.
RoundTripUpToReplacement ==
    \A t \in 1..Len(tasks) :
        (WriteThenRead(t) /\ byteLength(tasks[t].msg.content) <= MaxFileSize)
            => /\ ResultOf(t).success
               /\ ResultOf(t + 1).success
               /\ ResultOf(t + 1).data.content =
                     [i \in 1..Len(tasks[t].msg.content) |->
                         IF tasks[t].msg.content[i] = U_d800 THEN U_fffd
                         ELSE tasks[t].msg.content[i]]
               /\ ResultOf(t + 1).data.size = byteLength(tasks[t].msg.content)

\* The size in bytes of a content once encoded.
EncodedSize(content) == Len(Utf8Encode(content))

\* A step that serves one request: the request and the result sent for it.
ServeStep == Len(tasks') = Len(tasks) + 1
Served == tasks'[Len(tasks')].msg
Answer == LET out == srvSent'[tasks'[Len(tasks')].conn] IN out[Len(out)]

\* C23: a write whose encoded size is at most maxFileSize succeeds and one of
\* maxFileSize + 1 or more fails with the too-large error and leaves the tree
\* as it was; a read of a file of at most maxFileSize bytes succeeds and one of
\* a file of maxFileSize + 1 bytes or more fails with the too-large error.
C23_SizeLimitBoundary ==
    [][ServeStep =>
          /\ Served.type = "write" =>
                IF EncodedSize(Served.content) > MaxFileSize
                THEN /\ ~Answer.success
                     /\ Answer.error = "Content too large"
                     /\ fs' = fs
                ELSE /\ Answer.success
                     /\ Answer.data.size = EncodedSize(Served.content)
                     /\ fs'[Served.path] = FileNode(Utf8Encode(Served.content))
          /\ (Served.type = "read" /\ FsIsFile(fs, Served.path)) =>
                IF Len(fs[Served.path].content) > MaxFileSize
                THEN ~Answer.success /\ Answer.error = "File too large"
                ELSE Answer.success /\ Answer.data.size = Len(fs[Served.path].content)
          /\ Served.type = "read" => fs' = fs]_vars

\* A file of maxFileSize + 1 bytes was on disk: its read failed as too large; a
\* write of exactly maxFileSize bytes to a new path succeeded; the old file is
\* as it was.
C23_Witness ==
    /\ Len(tasks) = 2
    /\ tasks[1].msg.type = "read"
    /\ tasks[1].msg.path = P_file
    /\ ResultOf(1).error = "File too large"
    /\ tasks[2].msg.type = "write"
    /\ tasks[2].msg.path = P_new
    /\ EncodedSize(tasks[2].msg.content) = MaxFileSize
    /\ Len(tasks[2].msg.content) < MaxFileSize
    /\ ResultOf(2).success
    /\ Len(fs[P_file].content) = MaxFileSize + 1
    /\ Len(fs[P_new].content) = MaxFileSize

\* A write of maxFileSize + 1 bytes was refused: the file it named is neither
\* created nor truncated.
TooLargeWriteRefused ==
    \E t \in 1..Len(tasks) :
        /\ tasks[t].msg.type = "write"
        /\ EncodedSize(tasks[t].msg.content) = MaxFileSize + 1
        /\ ResultOf(t).error = "Content too large"
        /\ P_new \notin DOMAIN fs

-----------------------------------------------------------------------------
(* Looking things up                                                         *)

\* The requests of kind k that were answered.
Answered(k) == {t \in 1..Len(tasks) : tasks[t].msg.type = k /\ tasks[t].pc = "done"}

\* C24: exists on a validated path that does not exist succeeds with
\* {exists: false} while stat on that path fails with the not-found error;
\* exists fails on every other error: a path outside the allow-list, a path
\* below a file.
C24_ExistsAnswersNotFound ==
    /\ \A t \in Answered("exists") :
          LET q == tasks[t].msg.path
          IN IF ~validatePath(q).ok
             THEN ~ResultOf(t).success /\ ResultOf(t).error = "Access denied"
             ELSE IF FsExists(fs, validatePath(q).path)
                  THEN ResultOf(t).success /\ ResultOf(t).data.exists
             ELSE IF \E a \in DOMAIN fs : IsBelow(validatePath(q).path, a) /\ FsIsFile(fs, a)
                  THEN ~ResultOf(t).success /\ ResultOf(t).error = "ENOTDIR"
             ELSE ResultOf(t).success /\ ResultOf(t).data = [exists |-> FALSE]
    /\ \A t \in Answered("stat") :
          LET q == tasks[t].msg.path
          IN (validatePath(q).ok /\ ~FsExists(fs, validatePath(q).path))
                => /\ ~ResultOf(t).success
                   /\ ResultOf(t).error \in {"ENOENT", "ENOTDIR"}
                   /\ ResultOf(t).error = "ENOENT"
                         <=> ~\E a \in DOMAIN fs :
                                 IsBelow(validatePath(q).path, a) /\ FsIsFile(fs, a)

\* exists and stat were asked about the same missing path: the first answered
\* {exists: false}, the second failed with ENOENT.
C24_Witness ==
    /\ Len(tasks) = 2
    /\ tasks[1].msg = [Req1("exists", P_new) EXCEPT !.requestId = 1]
    /\ tasks[2].msg = [Req1("stat", P_new) EXCEPT !.requestId = 2]
    /\ ResultOf(1).success
    /\ ResultOf(1).data = [exists |-> FALSE]
    /\ ~ResultOf(2).success
    /\ ResultOf(2).error = "ENOENT"

\* Every entry a search of dirPath would return with no cap.
AllHits(m) ==
    opSearchFiles(fs, validatePath(m.path).path, m.pattern, m.recursive,
                  Cardinality(DOMAIN fs)).data

Min(a, b) == IF a < b THEN a ELSE b

\* C25: a search never returns more than maxResults entries: it returns the
\* first maxResults of the entries the walk finds, whatever the depth they are
\* found at, and a directory that cannot be read is passed over, the search
\* succeeding with the entries found before and after it.
C25_SearchStopsAtCap ==
    [][(ServeStep /\ Served.type = "search" /\ validatePath(Served.path).ok) =>
          /\ Answer.success
          /\ Len(Answer.data) <= Served.maxResults
          /\ Answer.data = SubSeq(AllHits(Served), 1,
                                  Min(Served.maxResults, Len(AllHits(Served))))
          /\ \A i \in 1..Len(Answer.data) :
                /\ PatternTest(Served.pattern, Answer.data[i].name)
                /\ \A a \in DOMAIN fs :
                      (FsIsDir(fs, a) /\ ~fs[a].readable) => ~IsBelow(Answer.data[i].path, a)
          /\ fs' = fs]_vars

\* A search with the default cap returned the four entries that match, one of
\* them listed after the directory that cannot be read, and a search with cap
\* MaxHits returned the first MaxHits of them, found one level down.
C25_Witness ==
    /\ Len(tasks) = 2
    /\ tasks[1].msg.type = "search"
    /\ tasks[1].msg.maxResults = DefaultMaxResults
    /\ tasks[1].msg.recursive
    /\ ResultOf(1).success
    /\ [i \in 1..Len(ResultOf(1).data) |-> ResultOf(1).data[i].path]
          = <<P_af, P_aff, P_locked, P_file>>
    /\ tasks[2].msg.type = "search"
    /\ tasks[2].msg.path = P_root
    /\ tasks[2].msg.maxResults = MaxHits
    /\ tasks[2].msg.recursive
    /\ ResultOf(2).success
    /\ Len(ResultOf(2).data) = MaxHits
    /\ ResultOf(2).data[1].path = P_af

-----------------------------------------------------------------------------
(* The client: errors of requests and errors of the connection               *)

\* The step is the handling of a connection-level error: an error envelope or
\* the transport's error event.
ConnectionErrorStep == clEvent'.kind \in {"error", "error event"} /\ clEvent' # clEvent

\* C26: a failed result envelope rejects exactly the matching request's handle
\* with the server's error message, and every connection-level error calls the
\* onError callback and settles no pending request.
C26_ErrorsAreSurfaced ==
    [][/\ (ResultStep /\ clEvent'.outcome = "server error" /\ clEvent'.id \in pendingRequests)
            => /\ handles[clEvent'.id].state = "pending"
                     => handles'[clEvent'.id] =
                           Handle("rejected", "server error", handles[clEvent'.id].on)
               /\ \A j \in DOMAIN handles \ {clEvent'.id} : handles'[j] = handles[j]
       /\ ConnectionErrorStep
            => /\ clEvent'.onError
               /\ handles' = handles
               /\ pendingRequests' = pendingRequests]_vars

\* The part of C26 the client keeps: failed results reject their own handle
\* only, no connection-level error settles a request, the transport's error
\* event always calls onError, and an error envelope calls it when the
\* connected flag is set.
ErrorsSettleNothing ==
    [][/\ (ResultStep /\ clEvent'.outcome = "server error" /\ clEvent'.id \in pendingRequests)
            => /\ handles[clEvent'.id].state = "pending"
                     => handles'[clEvent'.id] =
                           Handle("rejected", "server error", handles[clEvent'.id].on)
               /\ \A j \in DOMAIN handles \ {clEvent'.id} : handles'[j] = handles[j]
       /\ ConnectionErrorStep
            => /\ clEvent'.onError <=> (clEvent'.kind = "error event" \/ connected)
               /\ handles' = handles
               /\ pendingRequests' = pendingRequests]_vars

-----------------------------------------------------------------------------
(* The order of the requests of one connection                               *)

\* Requests t and u arrived on the same connection, t first.
Earlier(t, u) == t < u /\ tasks[t].conn = tasks[u].conn

\* The operation of request t has begun: its handler method was called and
\* waits for the file system, or has made its calls.
Begun(t) == tasks[t].pc = "fs" \/ CallsOf(t) # {}

\* C27: on one connection requests are processed one at a time in arrival
\* order: while the operation of a request is under way, every earlier request
\* of the connection has finished and has its result.
C27_OneRequestAtATime ==
    \A t \in RequestTasks : \A u \in RequestTasks :
        (Earlier(t, u) /\ tasks[u].pc = "fs")
            => tasks[t].pc = "done" /\ ResultsOf(t) # {}

\* C28: of two requests on one connection the operation of the earlier begins
\* first: once the later one has begun, the earlier one is no longer waiting
\* for the authorize hook.
C28_EarlierBeginsFirst ==
    \A t \in RequestTasks : \A u \in RequestTasks :
        (Earlier(t, u) /\ Begun(u)) => tasks[t].pc # "authorize"

\* The part of C28 the handler keeps: with no authorize hook, handleMessage
\* reaches its first fs call before the listener returns, so operations begin
\* in arrival order.
OrderKeptWithoutHook == ~authorizeSet => C28_EarlierBeginsFirst

\* Two requests of one connection whose operations are both under way.
TwoOperationsUnderWay ==
    \E t \in RequestTasks : \E u \in RequestTasks :
        Earlier(t, u) /\ tasks[t].pc = "fs" /\ tasks[u].pc = "fs"

-----------------------------------------------------------------------------
(* The order of the checks                                                   *)

\* Some path field of the request fails validatePath.
HasInvalidPath(m) == \E q \in PathFields(m) : ~validatePath(q).ok

\* The three refusals that precede execution.
CheckErrors ==
    {"Operation not authorized", "Write operations are not allowed",
     "Delete operations are not allowed", "Access denied"}

\* C29: a request is checked by the authorize hook, then against its permission
\* flag, then by path validation, and only then carried out; a request that
\* fails several checks is answered with the error of the first it fails, and
\* one that fails any makes no fs call.
C29_EarliestCheckReported ==
    \A t \in RequestTasks :
        (tasks[t].pc = "done" /\ tasks[t].auth # "throw" /\ tasks[t].msg.type \in OperationKinds)
            => /\ Cardinality(ResultsOf(t)) = 1
               /\ IF tasks[t].auth = "false"
                  THEN ResultOf(t).error = "Operation not authorized" /\ CallsOf(t) = {}
                  ELSE IF LacksPermission(tasks[t].msg)
                       THEN /\ ResultOf(t).error = PermissionErrorOf(tasks[t].msg)
                            /\ CallsOf(t) = {}
                  ELSE IF HasInvalidPath(tasks[t].msg)
                       THEN ResultOf(t).error = "Access denied" /\ CallsOf(t) = {}
                  ELSE ResultOf(t).error \notin CheckErrors

\* With allowWrite off, a write-kind request to a path outside the allow-list
\* that the hook admitted was answered write-disabled, and a request the hook
\* denied, which fails the two later checks as well, was answered not
\* authorized.
C29_Witness ==
    \E t \in RequestTasks : \E u \in RequestTasks :
        /\ tasks[t].pc = "done"
        /\ tasks[t].auth = "true"
        /\ tasks[t].msg.type \in WriteKinds
        /\ ~allowWrite
        /\ HasInvalidPath(tasks[t].msg)
        /\ ResultOf(t).error = "Write operations are not allowed"
        /\ tasks[u].pc = "done"
        /\ tasks[u].auth = "false"
        /\ LacksPermission(tasks[u].msg)
        /\ HasInvalidPath(tasks[u].msg)
        /\ ResultOf(u).error = "Operation not authorized"

-----------------------------------------------------------------------------
(* The session set                                                           *)

\* The connections that passed authentication and whose transport is open.
LiveSessions == {c \in peers : conn[c].auth = "true" /\ conn[c].open}

\* C30: in every reachable state the session set holds exactly the connections
\* that passed authentication and whose transport has not closed.
C30_SessionsAreTheLiveConnections == connections = LiveSessions

\* The part of C30 the handler keeps: only connections that passed
\* authentication are registered, every live one is registered, and a
\* registered one whose transport is closed closed before it was admitted.
SessionsWereAdmitted ==
    /\ \A c \in connections : conn[c].auth = "true"
    /\ LiveSessions \subseteq connections
    /\ [][\A c \in peers :
            (c \in connections /\ conn[c].open /\ ~conn'[c].open) => c \notin connections']_vars

\* A transport that closed while the authenticate hook was running is in the
\* session set.
ClosedSessionRegistered ==
    \E c \in connections : ~conn[c].open /\ conn[c].closeCode = 0

-----------------------------------------------------------------------------
(* Sends and the closed transport                                            *)

\* C31: after the transport of a connection has closed the server attempts no
\* further send on it: every ws.send is made on a transport that is open.
C31_NoSendAfterClose ==
    [][\A c \in peers : Len(srvSent'[c]) > Len(srvSent[c]) => conn[c].open]_vars

-----------------------------------------------------------------------------
(* The client: timers, promises and late events                              *)

\* C32: whenever the client is Active no reconnect timer is pending and the
\* reconnect-attempt counter is 0.
C32_ActiveHasNoTimer == Active => (~reconnectTimer /\ reconnectAttempts = 0)

\* The first connection was lost and a retry scheduled; a manual connect() then
\* made the client Active on a second transport while the retry is still
\* scheduled.
TimerSurvivesManualConnect ==
    /\ Active
    /\ reconnectTimer
    /\ Len(transports) = 2
    /\ transports[1].state = "closed"
    /\ transports[1].pushed

\* The retry that was left scheduled has fired while the client is Active: the
\* counter is no longer 0.
CounterRaisedWhileActive ==
    /\ Active
    /\ reconnectAttempts > 0
    /\ clEvent.kind = "timer"
    /\ Len(transports) = 2
    /\ transports[1].state = "closed"

\* C33: every connect() call settles: once the attempt it started has ended,
\* its transport closed, the promise it returned is resolved or rejected.
C33_ConnectSettles ==
    \A w \in 1..Len(transports) :
        transports[w].state = "closed" => connectPromise[w] # "pending"

\* The promise of an attempt that has ended is never settled afterwards: only
\* the handlers of its own transport settle it.
EndedAttemptStaysPending ==
    [][\A w \in 1..Len(transports) :
          (transports[w].state = "closed" /\ connectPromise[w] = "pending")
              => connectPromise'[w] = "pending"]_vars

\* The only transport opened, never received the capabilities push and was
\* closed; the promise of its connect() call is still pending.
RefusedAttemptNeverSettles ==
    /\ Len(transports) = 1
    /\ transports[1].state = "closed"
    /\ ~transports[1].pushed
    /\ connectPromise[1] = "pending"
    /\ clEvent.kind = "close"

-----------------------------------------------------------------------------
(* Frames that arrive during authentication                                  *)

\* The request frames that reached the server and were handed to no listener.
Dropped == {t \in RequestTasks : tasks[t].pc = "dropped"}

\* C34: a request frame that reaches the server while the authenticate hook is
\* pending is not lost: on a connection that was admitted and is open, every
\* frame received has been handed to handleMessage.
C34_EarlyFrameIsDispatched ==
    \A t \in Dropped :
        ~(conn[tasks[t].conn].auth = "true" /\ conn[tasks[t].conn].open)

\* A dropped frame stays dropped: no later step dispatches it or sends a result
\* for it.
DroppedIsNeverAnswered ==
    /\ \A t \in Dropped : ResultsOf(t) = {} /\ CallsOf(t) = {}
    /\ [][\A t \in Dropped : t \in Dropped']_vars

\* The connection was admitted and answered a later request, while the frame
\* that came during the hook has no result.
LaterFrameAnsweredEarlierLost ==
    /\ Len(tasks) = 2
    /\ tasks[1].pc = "dropped"
    /\ tasks[2].conn = tasks[1].conn
    /\ tasks[2].pc = "done"
    /\ ResultsOf(2) # {}
    /\ ResultsOf(1) = {}
    /\ conn[tasks[1].conn].open

\* The step is the close event of transport w.
CloseStepOf(w) ==
    /\ clEvent'.kind = "close"
    /\ clEvent'.on = w
    /\ w \in 1..Len(transports)
    /\ transports[w].state # "closed"
    /\ transports'[w].state = "closed"

\* C35: the close event of a transport the client has abandoned does not touch
\* a newer connection: the connected and connecting flags stay as they are and
\* no request sent on the current transport is rejected.
C35_LateCloseIsIgnored ==
    [][\A w \in 1..Len(transports) :
          (CloseStepOf(w) /\ ws # 0 /\ ws # w)
              => /\ connected' = connected
                 /\ connecting' = connecting
                 /\ \A i \in DOMAIN handles : handles[i].on = ws => handles'[i] = handles[i]]_vars

\* disconnect() abandoned the first transport, connect() opened a second one
\* and a request was sent on it; the close event of the first then cleared the
\* connected flag and rejected that request, the second transport still open.
LateCloseHitsNewConnection ==
    /\ clEvent.kind = "close"
    /\ clEvent.on = 1
    /\ ~autoReconnect
    /\ transports[1].pushed
    /\ ws = 2
    /\ transports[2].state = "open"
    /\ ~connected
    /\ requestId >= 1
    /\ handles[1].on = 2
    /\ handles[1].state = "rejected"
    /\ handles[1].value = "Connection closed"

\* An established connection has been lost.
ConnectionWasLost ==
    \E w \in 1..Len(transports) : transports[w].pushed /\ transports[w].state = "closed"

\* C36: after an established connection is lost the automatic attempts are
\* bounded by maxReconnectAttempts: the retries scheduled since then are at
\* most that many, each scheduled at a higher attempt count than the one
\* before, also when the attempts open and are closed before the push.
C36_RetriesBoundedAfterLoss ==
    ConnectionWasLost
        => /\ Len(retryLog) <= MaxReconnectAttempts
           /\ \A i \in 1..Len(retryLog) : \A j \in 1..Len(retryLog) :
                 i < j => retryLog[i].k < retryLog[j].k

\* The established connection was lost, and MaxReconnectAttempts automatic
\* attempts each opened and were closed before the push; one more retry is
\* scheduled, at attempt count 0 like all the others.
RetriesNeverRunOut ==
    /\ Len(transports) = MaxReconnectAttempts + 1
    /\ transports[1].pushed
    /\ \A w \in 1..Len(transports) : transports[w].state = "closed"
    /\ \A w \in 2..Len(transports) : ~transports[w].pushed
    /\ Len(retryLog) = MaxReconnectAttempts + 1
    /\ \A i \in 1..Len(retryLog) : retryLog[i].k = 0
    /\ reconnectTimer

DisconnectHandlerCalled == clEvent'.outcome = "was connected"

\* C38: onDisconnect is called once for each close of a transport that had
\* opened, however the close came about, and is not called for the close of a
\* transport that never opened.
C38_OnDisconnectOncePerOpenedTransport ==
    [][\A w \in 1..Len(transports) :
          CloseStepOf(w) => (DisconnectHandlerCalled <=> transports[w].opened)]_vars

\* The part of C38 the client keeps: the callback is called by the close
\* handler alone, once per close event, and exactly when the connected flag is
\* set at that moment.
OnDisconnectFollowsFlag ==
    [][/\ \A w \in 1..Len(transports) :
             CloseStepOf(w) => (DisconnectHandlerCalled <=> connected)
       /\ clEvent'.kind # "close" => ~DisconnectHandlerCalled]_vars

\* disconnect() closed the only transport, which had received the push, and
\* its close event did not call onDisconnect.
DisconnectIsNotReported ==
    /\ clEvent.kind = "close"
    /\ clEvent.outcome = ""
    /\ Len(transports) = 1
    /\ transports[1].pushed
    /\ ws = 0

\* C39: disconnect() disables auto-reconnect for the rest of the client's
\* life: once it was called, auto-reconnect stays off and no close, not even
\* the unexpected close of a connection made by a later connect(), schedules a
\* retry.
C39_DisconnectDisablesReconnectForGood ==
    /\ [][clEvent'.kind = "disconnect" => ~autoReconnect']_vars
    /\ [][~autoReconnect =>
            /\ ~autoReconnect'
            /\ clEvent'.kind = "close" => (~reconnectTimer' /\ retryLog' = retryLog)]_vars

\* disconnect() abandoned the first, established transport, whose close event
\* is still to come; connect() then established a second connection, whose
\* transport has just closed: no retry is scheduled.
C39_Witness ==
    /\ clEvent.kind = "close"
    /\ clEvent.on = 2
    /\ clEvent.outcome = "was connected"
    /\ Len(transports) = 2
    /\ transports[1].pushed
    /\ transports[1].state = "closing"
    /\ transports[2].pushed
    /\ transports[2].state = "closed"
    /\ ws = 2
    /\ ~autoReconnect
    /\ ~reconnectTimer
    /\ retryLog = <<>>

-----------------------------------------------------------------------------
(* Claims about the end of a copy (SpecServerFair) *)

\* The file system's answer to request t arrives: the step that takes its
\* handleMessage call from the awaited handler method to its end, which is
\* FsFinish(t) and no other step of the handler.
FsAnswers(t) ==
    /\ t \in 1..Len(tasks)
    /\ tasks[t].pc = "fs"
    /\ tasks' = [tasks EXCEPT ![t].pc = "done"]

\* The handler with the file system answering every call made on it: the
\* awaited fs promises of a handler method all settle.
SpecServerFair ==
    SpecServer /\ \A t \in 1..MaxRequests : WF_tasks(FsAnswers(t))

\* The copy requests whose two paths passed validatePath.
ValidatedCopies ==
    {t \in 1..Len(tasks) : tasks[t].msg.type = "copy" /\ Len(tasks[t].resolved) = 2}

\* The copy requests whose destination lies inside their source directory.
CopiesIntoSelf ==
    {t \in ValidatedCopies : IsBelow(tasks[t].resolved[2], tasks[t].resolved[1])}

\* Request t is a copy whose handleMessage call is at pc.
CopyAt(t, pc) ==
    IF t \in ValidatedCopies THEN tasks[t].pc = pc ELSE FALSE

\* C40: a copy request whose paths were validated terminates with exactly one
\* result envelope, also when the destination lies inside the source: while
\* copyItem runs, nothing is sent for the request and copyItem comes to an end
\* on the tree as it is (it returns or throws); the request does end; and once
\* it has ended exactly one result echoes its id.
C40_CopyEndsWithOneResult ==
    /\ [](\A t \in ValidatedCopies :
            tasks[t].pc = "fs" =>
                opCopyItem(fs, tasks[t].resolved[1], tasks[t].resolved[2]).ok \in BOOLEAN)
    /\ [][\A t \in 1..MaxRequests :
            (t <= Len(tasks') /\ tasks'[t].msg.type = "copy" /\ Len(tasks'[t].resolved) = 2)
            => /\ tasks'[t].pc \in {"fs", "done"}
               /\ tasks'[t].pc = "fs" => ResultsOf(t)' = {}
               /\ tasks'[t].pc = "done" => Cardinality(ResultsOf(t)') = 1]_vars
    /\ \A t \in 1..MaxRequests : CopyAt(t, "fs") ~> CopyAt(t, "done")

\* The copy of the root directory into its own subdirectory has ended: the
\* recursion went down the directory it was making until the file system
\* refused the path, and the one result reports that error.
C40_Witness ==
    \E t \in CopiesIntoSelf :
        /\ tasks[t].pc = "done"
        /\ Cardinality(ResultsOf(t)) = 1
        /\ ~ResultOf(t).success
        /\ ResultOf(t).error = "ENAMETOOLONG"
        /\ \E q \in DOMAIN fs : Len(PathSegs(q)) = MaxTreeDepth /\ FsIsDir(fs, q)

=============================================================================
